---------------------------- MODULE Spec2Model ----------------------------
(***************************************************************************)
(* Verification model of the volar language tooling core:                  *)
(*   - the language context (createLanguageContext: host synchronisation   *)
(*     and version bookkeeping),                                           *)
(*   - the program overlay's diagnostic translation (transformDiagnostics),*)
(*   - the workspace's project / configuration resolution                  *)
(*     (createWorkspace: findMatchConfigs, getReferencesChains, ...).      *)
(* Each part has its own specification over the shared variables; the      *)
(* variables of the other parts stay at their idle value.                  *)
(***************************************************************************)
EXTENDS Integers, Sequences, FiniteSets, TLC

(***************************************************************************)
(* Bounds of the model.                                                    *)
(***************************************************************************)
\* host snapshots of a file are identities 1..MaxSnap (0: the host has none)
MaxSnap == 3
\* the Project Version counter is explored up to this value
MaxPV == 2
\* a unit's Version Token is explored up to this value
MaxTok == 1
\* the host changes at most this many times in a run
MaxHostOps == 2
\* offsets of a generated unit's text are 0..MaxOff
MaxOff == 2
\* a generated unit carries at most this many mapping ranges
MaxRanges == 2
\* a diagnostic carries at most this many related-information entries
MaxRelated == 1
\* the configurations declare at most this many project references in all
MaxEdges == 2
\* Project promises created in one run of the workspace
MaxInst == 4
\* getProjectAndTsConfig calls in one run of the workspace
MaxCalls == 2
\* watch events, reloads and disposes in one run of the workspace
MaxWsOps == 4

\* a language context is created over at most this many language modules
MaxModules == 3
\* the language service builds at most this many programs
MaxPrograms == 2
\* the values written through the program overlay are 1..MaxWritten
MaxWritten == 1

\* JavaScript's undefined, for string typed values
NoVal == "<undefined>"

(***************************************************************************)
(* Number.prototype.toString of the small non-negative integers the model  *)
(* reaches, and its inverse.                                               *)
(***************************************************************************)
Digits == <<"0", "1", "2", "3", "4", "5", "6", "7", "8", "9">>
toString(n) == Digits[n + 1]
parseInt(s) == CHOOSE n \in 0..9 : Digits[n + 1] = s

VARIABLES
    \* ---- the host of a language context (LanguageServiceHost) ----
    hFiles,                \* host.getScriptFileNames()
    hSnap,                 \* host.getScriptSnapshot(f): identity, 0 = undefined
    hVer,                  \* host.getScriptVersion(f)
    hPV,                   \* host.getProjectVersion(), NoVal = undefined
    isTsc,                 \* host.isTsc
    hostOps,               \* how many times the host has changed
    \* ---- createLanguageContext's closure state ----
    lastProjectVersion,
    tsProjectVersion,
    sources,               \* virtualFiles: tracked document -> its snapshot (0: untracked)
    sourceFileVersions,
    sourceTsFileVersions,
    virtualFileVersions,
    \* ---- observations of the language context's callers ----
    lastView,              \* the engine-visible files and identities after the last update cycle
    lastRet,               \* the last token getScriptVersion returned per generated unit
    generatedAt,           \* the host version string of a document when it was last generated
    lcOp,                  \* the last step: "host", "access" or "query"
    lcRan,                 \* whether the last access ran an update cycle
    lcArg,                 \* the path the last query or probe asked for
    lcProbe,               \* the last fileExists probe: its answer, and whether it ran updateSource
    lastFileNames,         \* what getScriptFileNames() returned at the last access
    \* ---- the program overlay's diagnostic translation ----
    dgMappings,            \* the mapping ranges of the generated unit /a.vue.ts
    dgSourceExists,        \* languageServiceHost.fileExists of the owning document
    dgPlainExists,         \* languageServiceHost.fileExists of the plain file
    dgDiags,               \* the diagnostics the engine reports
    dgOut,                 \* the translated diagnostics
    dgPc,                  \* "ready" before, "done" after the translation
    \* ---- one resolution of a document by the workspace, run to its end ----
    rsRefs,                \* configuration -> its projectReferences paths
    rsDirect,              \* configuration -> its fileNames hold the document
    rsEngine,              \* configuration -> "none" (no Project), "project", "loaded"
    rsRoots0,              \* rootTsConfigs before the call
    rsSearched0,           \* searchedDirs before the call
    rsReverse,             \* initOptions.reverseConfigFilePriority
    rsOut,                 \* what the call returned and left behind
    rsPc,                  \* "ready" before, "done" after the call
    \* ---- the workspace over time: calls suspended at awaits, watch events ----
    wsProjects,            \* projects: configuration -> Project promise (0: no entry)
    wsInferred,            \* inferredProject (0: undefined)
    wsInst,                \* the Project promises created so far
    wsNextId,              \* the next promise to be created
    wsRoots,               \* rootTsConfigs
    wsSearched,            \* searchedDirs
    wsExists,              \* the configuration file is on disk
    wsLists,               \* the configuration's fileNames hold the document
    wsWatching,            \* the watch handler is still registered
    wsCalls,               \* the getProjectAndTsConfig calls
    wsMicro,               \* the microtask queue
    wsOps,                 \* watch events, reloads and disposes so far
    wsRemoved,             \* the promises taken out of the map or the inferred slot
    \* ---- the program overlay (getProgram's Proxy) ----
    pgPrograms,            \* the programs ls.getProgram() has returned, the last is current
    pgTarget,              \* the Proxy's target object
    pgOp,                  \* the last step: "rebuild", "get" or "set"
    pgProp,                \* the property of the last get or set
    pgRead,                \* what the last get returned
    \* ---- the creation of a language context over its language modules ----
    mdRegistered,          \* the modules in the order the caller registered them
    mdModules,             \* the caller's array languageModules, as it is now
    mdProxies,             \* the modules that have proxyLanguageServiceHost
    mdAccepts,             \* the modules whose createVirtualFile accepts the document
    mdHost,                \* the host's proxy layers, the outermost first
    mdStore,               \* the modules createVirtualFiles was created over, in its order
    mdTree,                \* the module whose tree is installed for the document (0: none)
    mdPc,                  \* "new", "created", "updated"
    \* ---- sorting the candidate root configurations ----
    stFile,                \* the document the candidates are ranked for
    stCandidates,          \* [...rootTsConfigs], in the set's insertion order
    stSorted,              \* the array after .sort((a, b) => sortTsConfigs(file, a, b))
    stPc,                  \* "ready", "sorted"
    \* ---- getScriptSnapshot and its cache ----
    xSnap,                 \* host.getScriptSnapshot of the host's files outside the project
    xVer,                  \* host.getScriptVersion of those files
    scriptSnapshots,       \* the cache: fileName.toLowerCase() -> [version, snapshot]
    snRet                  \* what the last getScriptSnapshot returned

lcVars == <<hFiles, hSnap, hVer, hPV, isTsc, hostOps, lastProjectVersion, tsProjectVersion,
            sources, sourceFileVersions, sourceTsFileVersions, virtualFileVersions,
            lastView, lastRet, generatedAt, lcOp, lcRan, lcArg, lcProbe,
            lastFileNames>>

dgVars == <<dgMappings, dgSourceExists, dgPlainExists, dgDiags, dgOut, dgPc>>

rsVars == <<rsRefs, rsDirect, rsEngine, rsRoots0, rsSearched0, rsReverse, rsOut, rsPc>>

wsVars == <<wsProjects, wsInferred, wsInst, wsNextId, wsRoots, wsSearched, wsExists,
            wsLists, wsWatching, wsCalls, wsMicro, wsOps, wsRemoved>>

pgVars == <<pgPrograms, pgTarget, pgOp, pgProp, pgRead>>

mdVars == <<mdRegistered, mdModules, mdProxies, mdAccepts, mdHost, mdStore, mdTree, mdPc>>

stVars == <<stFile, stCandidates, stSorted, stPc>>

snVars == <<xSnap, xVer, scriptSnapshots, snRet>>

vars == <<lcVars, dgVars, rsVars, wsVars, pgVars, mdVars, stVars, snVars>>

(***************************************************************************)
(* Files of the language context's scenario.  Docs are composite source    *)
(* documents some language module accepts; every other path is a plain     *)
(* host-language file that every module rejects.                           *)
(***************************************************************************)
Docs == {"/a.vue", "/c.vue"}
PlainFiles == {"/b.ts"}
Paths == Docs \cup PlainFiles
ProjectVersions == {"1", "2"}
\* /a.vue is edited freely; /c.vue and /b.ts only appear and disappear, and
\* /b.ts also changes its version string
HostSnapshots(f) == IF f = "/a.vue" THEN 0..MaxSnap ELSE {0, 1}
HostVersions(f) == IF f = "/c.vue" THEN {"0"} ELSE {"0", "1"}

\* the engine-visible (FileKind.TypeScriptHostFile) unit of a document
UnitTs(d) == IF d = "/a.vue" THEN "/a.vue.ts" ELSE "/c.vue.ts"
\* the auxiliary unit of a document, not submitted to the engine
UnitHtml(d) == IF d = "/a.vue" THEN "/a.vue.html" ELSE "/c.vue.html"
TsUnits == {UnitTs(d) : d \in Docs}
HtmlUnits == {UnitHtml(d) : d \in Docs}
Units == TsUnits \cup HtmlUnits
Owner(u) == CHOOSE d \in Docs : u \in {UnitTs(d), UnitHtml(d)}

\* languageModule.createVirtualFile accepts a file or returns undefined
Accepts(f) == f \in Docs

(***************************************************************************)
(* The generated tree of a document is a function of its snapshot: the     *)
(* script unit depends on the script block only (snapshots 2k-1 and 2k     *)
(* share it), the markup unit on the whole text.                           *)
(***************************************************************************)
GenTs(s) == (s + 1) \div 2
GenHtml(s) == s
UnitSnapshot(srcs, u) == IF u \in TsUnits THEN GenTs(srcs[Owner(u)]) ELSE GenHtml(srcs[Owner(u)])

\* virtualFiles.hasSource / allSources
hasSource(srcs, f) == f \in Docs /\ srcs[f] # 0
allSources(srcs) == {d \in Docs : srcs[d] # 0}
\* virtualFiles.getVirtualFile(fileName): does the path resolve to (unit, source)
hasVirtualFile(srcs, f) == f \in Units /\ srcs[Owner(f)] # 0

\* a record of virtualFileVersions; has = FALSE is a missing map entry
NoRecord == [has |-> FALSE, value |-> 0, virtualFileSnapshot |-> 0, sourceFileSnapshot |-> 0]

\* files the host has besides the project's: a file whose name differs from
\* /b.ts in letter case only, and a file with the name of /c.vue's unit
ExtraPaths == {"/B.ts", "/c.vue.ts"}

\* host.getScriptVersion of any path
HostVersion(f) == IF f \in Paths THEN hVer[f] ELSE IF f \in ExtraPaths THEN xVer[f] ELSE ""
\* host.getScriptSnapshot of any path (0: undefined)
HostSnapshot(f) == IF f \in Paths THEN hSnap[f] ELSE IF f \in ExtraPaths THEN xSnap[f] ELSE 0
\* host.fileExists of any path: the host has the files it has snapshots of
hostFileExists(f) == HostSnapshot(f) # 0

\* the paths whose existence the engine probes
ProbePaths == {"/c.vue.ts", "/b.ts", "/b.ts.ts"}
\* fileName.substring(fileName.lastIndexOf('.')) and
\* fileName.substring(0, fileName.lastIndexOf('.')) of the probed paths
extOf(fileName) == ".ts"
stemOf(fileName) ==
    IF fileName = "/c.vue.ts" THEN "/c.vue"
    ELSE IF fileName = "/b.ts.ts" THEN "/b.ts"
    ELSE "/b"
\* the extensions fileExists looks behind
HostExtensions == {".js", ".ts", ".jsx", ".tsx"}

\* no probe was the last step
NoProbe == [answer |-> FALSE, updateSource |-> FALSE]

(***************************************************************************)
(* update(): the pieces of one call, then the state after it.              *)
(***************************************************************************)
\* a variant without the throttle
shouldUpdate_always(newProjectVersion) == TRUE

\* the throttle: run only when the host's project version is undefined or new
shouldUpdate(newProjectVersion) ==
    newProjectVersion = NoVal \/ newProjectVersion # lastProjectVersion

\* a variant that never deletes a document
deletedSources_none == {}

\* tracked documents the host has no snapshot for any more
deletedSources == {d \in allSources(sources) : hSnap[d] = 0}

\* tracked documents whose host version string differs from the recorded one
refreshedSources ==
    {d \in allSources(sources) \ deletedSources : sourceFileVersions[d] # hVer[d]}

\* root files that are not tracked and that a language module accepts
addedSources ==
    {f \in hFiles \ allSources(sources) : hSnap[f] # 0 /\ Accepts(f)}

\* the store after the three loops over documents
updatedSources ==
    [d \in Docs |-> IF d \in deletedSources THEN 0
                    ELSE IF d \in refreshedSources \cup addedSources THEN hSnap[d]
                    ELSE sources[d]]

\* remainRootFiles after the "add" loop
remainRootFiles == (hFiles \ allSources(sources)) \ addedSources

\* recorded plain files whose host version string differs
changedTsFiles ==
    {f \in Paths : sourceTsFileVersions[f] # NoVal /\ sourceTsFileVersions[f] # hVer[f]}
\* ... of which those that are no root file and have no snapshot are dropped
droppedTsFiles == {f \in changedTsFiles : f \notin remainRootFiles /\ hSnap[f] = 0}
\* remaining root files that have no record yet
addedTsFiles == {f \in remainRootFiles : sourceTsFileVersions[f] = NoVal}

\* an engine-visible unit with a token record whose snapshot is not the recorded one
unitSnapshotChanged ==
    \E d \in allSources(updatedSources) :
        /\ virtualFileVersions[UnitTs(d)].has
        /\ virtualFileVersions[UnitTs(d)].virtualFileSnapshot
               # UnitSnapshot(updatedSources, UnitTs(d))

\* a variant that bumps the Project Version in every update cycle
shouldUpdateTsProject_everyCycle == TRUE

\* a variant that ignores the engine-visible units' snapshots
shouldUpdateTsProject_noUnitCheck ==
    LET virtualFilesUpdatedNum == Cardinality(deletedSources) + Cardinality(refreshedSources)
    IN  \/ deletedSources # {}
        \/ virtualFilesUpdatedNum = 0
        \/ changedTsFiles # {}
        \/ addedTsFiles # {}

shouldUpdateTsProject ==
    LET virtualFilesUpdatedNum == Cardinality(deletedSources) + Cardinality(refreshedSources)
    IN  \/ deletedSources # {}
        \/ virtualFilesUpdatedNum = 0
        \/ changedTsFiles # {}
        \/ addedTsFiles # {}
        \/ unitSnapshotChanged

update ==
    IF ~shouldUpdate(hPV)
    THEN [ran |-> FALSE,
          lastProjectVersion |-> hPV,
          tsProjectVersion |-> tsProjectVersion,
          sources |-> sources,
          sourceFileVersions |-> sourceFileVersions,
          sourceTsFileVersions |-> sourceTsFileVersions]
    ELSE [ran |-> TRUE,
          lastProjectVersion |-> hPV,
          tsProjectVersion |-> IF shouldUpdateTsProject THEN tsProjectVersion + 1
                               ELSE tsProjectVersion,
          sources |-> updatedSources,
          sourceFileVersions |->
              [d \in Docs |-> IF d \in refreshedSources THEN hVer[d]
                              ELSE sourceFileVersions[d]],
          sourceTsFileVersions |->
              [f \in Paths |-> IF f \in droppedTsFiles THEN NoVal
                               ELSE IF f \in changedTsFiles \cup addedTsFiles THEN hVer[f]
                               ELSE sourceTsFileVersions[f]]]

\* getScriptFileNames() over a store
getScriptFileNames(srcs) ==
    {UnitTs(d) : d \in allSources(srcs)} \cup {f \in hFiles : ~hasSource(srcs, f)}

(***************************************************************************)
(* getScriptVersion(fileName) over a store and the token records: the      *)
(* returned string and the records after the call.                        *)
(***************************************************************************)
\* a variant that reacts to the owning document's snapshot in every mode
getScriptVersion_anyMode(srcs, vfv, fileName) ==
    IF hasVirtualFile(srcs, fileName)
    THEN LET version == vfv[fileName]
             vSnap == UnitSnapshot(srcs, fileName)
             sSnap == srcs[Owner(fileName)]
             fresh == [has |-> TRUE, value |-> 0,
                       virtualFileSnapshot |-> vSnap, sourceFileSnapshot |-> sSnap]
             bumped == [has |-> TRUE, value |-> version.value + 1,
                        virtualFileSnapshot |-> vSnap, sourceFileSnapshot |-> sSnap]
             now == IF ~version.has THEN fresh
                    ELSE IF version.virtualFileSnapshot # vSnap
                            \/ version.sourceFileSnapshot # sSnap
                         THEN bumped
                         ELSE version
         IN  [ret |-> toString(now.value), vfv |-> [vfv EXCEPT ![fileName] = now]]
    ELSE [ret |-> HostVersion(fileName), vfv |-> vfv]

getScriptVersion(srcs, vfv, fileName) ==
    IF hasVirtualFile(srcs, fileName)
    THEN LET version == vfv[fileName]
             vSnap == UnitSnapshot(srcs, fileName)
             sSnap == srcs[Owner(fileName)]
             fresh == [has |-> TRUE, value |-> 0,
                       virtualFileSnapshot |-> vSnap, sourceFileSnapshot |-> sSnap]
             bumped == [has |-> TRUE, value |-> version.value + 1,
                        virtualFileSnapshot |-> vSnap, sourceFileSnapshot |-> sSnap]
             now == IF ~version.has THEN fresh
                    ELSE IF version.virtualFileSnapshot # vSnap
                            \/ (isTsc /\ version.sourceFileSnapshot # sSnap)
                         THEN bumped
                         ELSE version
         IN  [ret |-> toString(now.value), vfv |-> [vfv EXCEPT ![fileName] = now]]
    ELSE [ret |-> HostVersion(fileName), vfv |-> vfv]

(***************************************************************************)
(* What the engine sees after an update cycle: every file of               *)
(* getScriptFileNames with its identity (a unit's snapshot, a plain file's *)
(* host version string).                                                   *)
(***************************************************************************)
EngineView(srcs) ==
    {<<UnitTs(d), GenTs(srcs[d]), "">> : d \in allSources(srcs)}
    \cup {<<f, 0, hVer[f]>> : f \in {g \in hFiles : ~hasSource(srcs, g)}}

\* the host version strings of the documents an update cycle generates
GeneratedNow ==
    [d \in Docs |-> IF d \in refreshedSources \cup addedSources THEN hVer[d]
                    ELSE generatedAt[d]]

\* before the first update cycle nothing has been shown to the engine
NoView == {<<"<none>", 0, "">>}
\* before the first access no file names have been returned
NoFileNames == {"<none>"}

(***************************************************************************)
(* The host: any file may appear, disappear, get a new snapshot or a new   *)
(* version string, and the host's project version may change, each on its  *)
(* own.                                                                    *)
(***************************************************************************)
HostUnchanged == UNCHANGED <<hFiles, hSnap, hVer, hPV, isTsc, hostOps, dgVars, rsVars, wsVars, pgVars, mdVars, stVars, snVars>>
ContextUnchanged == UNCHANGED <<lastProjectVersion, tsProjectVersion, sources,
                                sourceFileVersions, sourceTsFileVersions,
                                virtualFileVersions, lastView, lastRet, generatedAt,
                                lastFileNames, dgVars, rsVars, wsVars, pgVars, mdVars, stVars, snVars>>

HostSetRoot(f) ==
    /\ hFiles' = IF f \in hFiles THEN hFiles \ {f} ELSE hFiles \cup {f}
    /\ hostOps < MaxHostOps
    /\ hostOps' = hostOps + 1
    /\ lcOp' = "host"
    /\ lcRan' = FALSE
    /\ lcArg' = NoVal
    /\ lcProbe' = NoProbe
    /\ UNCHANGED <<hSnap, hVer, hPV, isTsc>>
    /\ ContextUnchanged

HostSetSnapshot(f, s) ==
    /\ s \in HostSnapshots(f)
    /\ s # hSnap[f]
    /\ hSnap' = [hSnap EXCEPT ![f] = s]
    /\ hostOps < MaxHostOps
    /\ hostOps' = hostOps + 1
    /\ lcOp' = "host"
    /\ lcRan' = FALSE
    /\ lcArg' = NoVal
    /\ lcProbe' = NoProbe
    /\ UNCHANGED <<hFiles, hVer, hPV, isTsc>>
    /\ ContextUnchanged

HostSetVersion(f, v) ==
    /\ v \in HostVersions(f)
    /\ v # hVer[f]
    /\ hVer' = [hVer EXCEPT ![f] = v]
    /\ hostOps < MaxHostOps
    /\ hostOps' = hostOps + 1
    /\ lcOp' = "host"
    /\ lcRan' = FALSE
    /\ lcArg' = NoVal
    /\ lcProbe' = NoProbe
    /\ UNCHANGED <<hFiles, hSnap, hPV, isTsc>>
    /\ ContextUnchanged

HostSetProjectVersion(v) ==
    /\ hPV # NoVal
    /\ v # hPV
    /\ hPV' = v
    /\ hostOps < MaxHostOps
    /\ hostOps' = hostOps + 1
    /\ lcOp' = "host"
    /\ lcRan' = FALSE
    /\ lcArg' = NoVal
    /\ lcProbe' = NoProbe
    /\ UNCHANGED <<hFiles, hSnap, hVer, isTsc>>
    /\ ContextUnchanged

\* an edit of a file as an editor's host reports it: a new snapshot, the file's
\* other version string and, if the host has project versions, a new one
HostEdit(f, s) ==
    /\ hSnap[f] # 0
    /\ s \in HostSnapshots(f) \ {0, hSnap[f]}
    /\ HostVersions(f) # {hVer[f]}
    /\ hSnap' = [hSnap EXCEPT ![f] = s]
    /\ hVer' = [hVer EXCEPT ![f] = CHOOSE v \in HostVersions(f) : v # hVer[f]]
    /\ hPV' = IF hPV = NoVal THEN NoVal ELSE CHOOSE v \in ProjectVersions : v # hPV
    /\ hostOps < MaxHostOps
    /\ hostOps' = hostOps + 1
    /\ lcOp' = "host"
    /\ lcRan' = FALSE
    /\ lcArg' = NoVal
    /\ lcProbe' = NoProbe
    /\ UNCHANGED <<hFiles, isTsc>>
    /\ ContextUnchanged

(***************************************************************************)
(* Any property read of the proxied host or of the store runs update().    *)
(***************************************************************************)
Access ==
    LET u == update IN
    /\ tsProjectVersion < MaxPV
    /\ lastProjectVersion' = u.lastProjectVersion
    /\ tsProjectVersion' = u.tsProjectVersion
    /\ sources' = u.sources
    /\ sourceFileVersions' = u.sourceFileVersions
    /\ sourceTsFileVersions' = u.sourceTsFileVersions
    /\ lastView' = IF u.ran THEN EngineView(u.sources) ELSE lastView
    /\ generatedAt' = IF u.ran THEN GeneratedNow ELSE generatedAt
    /\ lastFileNames' = getScriptFileNames(u.sources)
    /\ lcOp' = "access"
    /\ lcRan' = u.ran
    /\ lcArg' = NoVal
    /\ lcProbe' = NoProbe
    /\ UNCHANGED <<virtualFileVersions, lastRet>>
    /\ HostUnchanged

\* languageServiceHost.getScriptVersion(fileName): update(), then the call
QueryVersion(f) ==
    LET u == update
        r == getScriptVersion(u.sources, virtualFileVersions, f) IN
    /\ tsProjectVersion < MaxPV
    /\ virtualFileVersions[f].value < MaxTok
    /\ lastProjectVersion' = u.lastProjectVersion
    /\ tsProjectVersion' = u.tsProjectVersion
    /\ sources' = u.sources
    /\ sourceFileVersions' = u.sourceFileVersions
    /\ sourceTsFileVersions' = u.sourceTsFileVersions
    /\ virtualFileVersions' = r.vfv
    /\ lastView' = IF u.ran THEN EngineView(u.sources) ELSE lastView
    /\ generatedAt' = IF u.ran THEN GeneratedNow ELSE generatedAt
    /\ lastRet' = IF hasVirtualFile(u.sources, f) THEN [lastRet EXCEPT ![f] = r.ret]
                  ELSE lastRet
    /\ lastFileNames' = getScriptFileNames(u.sources)
    /\ lcOp' = "query"
    /\ lcRan' = u.ran
    /\ lcArg' = f
    /\ lcProbe' = NoProbe
    /\ HostUnchanged

(***************************************************************************)
(* languageServiceHost.fileExists(fileName): update() on the property      *)
(* read, then the call.  The result is the store, the answer, and whether  *)
(* updateSource ran for the stem.                                          *)
(***************************************************************************)
\* a variant that answers from the store as it is
fileExists_noRegister(srcs, fileName) ==
    [sources |-> srcs,
     updateSource |-> FALSE,
     answer |-> hasVirtualFile(srcs, fileName) \/ hostFileExists(fileName)]

fileExists(srcs, fileName) ==
    LET sourceFileName == stemOf(fileName)
        updates == /\ extOf(fileName) \in HostExtensions
                   /\ ~hasSource(srcs, sourceFileName)
                   /\ HostSnapshot(sourceFileName) # 0
        registered == IF updates /\ Accepts(sourceFileName)
                      THEN [srcs EXCEPT ![sourceFileName] = hSnap[sourceFileName]]
                      ELSE srcs
    IN  [sources |-> registered,
         updateSource |-> updates,
         answer |-> hasVirtualFile(registered, fileName) \/ hostFileExists(fileName)]

Probe(f) ==
    LET u == update
        r == fileExists(u.sources, f)
        generated == IF u.ran THEN GeneratedNow ELSE generatedAt IN
    /\ tsProjectVersion < MaxPV
    /\ lastProjectVersion' = u.lastProjectVersion
    /\ tsProjectVersion' = u.tsProjectVersion
    /\ sources' = r.sources
    /\ sourceFileVersions' = u.sourceFileVersions
    /\ sourceTsFileVersions' = u.sourceTsFileVersions
    /\ lastView' = IF u.ran THEN EngineView(u.sources) ELSE lastView
    /\ generatedAt' = [d \in Docs |-> IF r.sources[d] # u.sources[d] THEN hVer[d]
                                       ELSE generated[d]]
    /\ lastFileNames' = getScriptFileNames(r.sources)
    /\ lcOp' = "probe"
    /\ lcRan' = u.ran
    /\ lcArg' = f
    /\ lcProbe' = [answer |-> r.answer, updateSource |-> r.updateSource]
    /\ UNCHANGED <<virtualFileVersions, lastRet>>
    /\ HostUnchanged

LCInit ==
    /\ hFiles \in SUBSET Paths
    /\ hSnap = [f \in Paths |-> IF f \in hFiles THEN 1 ELSE 0]
    /\ hVer = [f \in Paths |-> "0"]
    /\ hPV \in {NoVal, "1"}
    /\ isTsc \in BOOLEAN
    /\ hostOps = 0
    /\ lastProjectVersion = NoVal
    /\ tsProjectVersion = 0
    /\ sources = [d \in Docs |-> 0]
    /\ sourceFileVersions = [d \in Docs |-> NoVal]
    /\ sourceTsFileVersions = [f \in Paths |-> NoVal]
    /\ virtualFileVersions = [u \in TsUnits |-> NoRecord]
    /\ lastView = NoView
    /\ lastRet = [u \in TsUnits |-> NoVal]
    /\ generatedAt = [d \in Docs |-> NoVal]
    /\ lcOp = "init"
    /\ lcRan = FALSE
    /\ lcArg = NoVal
    /\ lcProbe = NoProbe
    /\ lastFileNames = NoFileNames

LCNext ==
    \/ \E f \in Paths : HostSetRoot(f)
    \/ \E f \in Paths, s \in 0..MaxSnap : HostSetSnapshot(f, s)
    \/ \E f \in Paths, v \in {"0", "1"} : HostSetVersion(f, v)
    \/ \E v \in ProjectVersions : HostSetProjectVersion(v)
    \/ \E f \in Paths, s \in 0..MaxSnap : HostEdit(f, s)
    \/ Access
    \/ \E f \in TsUnits : QueryVersion(f)
    \/ \E f \in ProbePaths : Probe(f)

\* the language context while another part of the system is looked at
LCIdle ==
    /\ hFiles = {}
    /\ hSnap = [f \in Paths |-> 0]
    /\ hVer = [f \in Paths |-> "0"]
    /\ hPV = NoVal
    /\ isTsc = FALSE
    /\ hostOps = 0
    /\ lastProjectVersion = NoVal
    /\ tsProjectVersion = 0
    /\ sources = [d \in Docs |-> 0]
    /\ sourceFileVersions = [d \in Docs |-> NoVal]
    /\ sourceTsFileVersions = [f \in Paths |-> NoVal]
    /\ virtualFileVersions = [u \in TsUnits |-> NoRecord]
    /\ lastView = NoView
    /\ lastRet = [u \in TsUnits |-> NoVal]
    /\ generatedAt = [d \in Docs |-> NoVal]
    /\ lcOp = "init"
    /\ lcRan = FALSE
    /\ lcArg = NoVal
    /\ lcProbe = NoProbe
    /\ lastFileNames = NoFileNames

(***************************************************************************)
(* The program overlay: transformDiagnostics.  The engine's program holds  *)
(* the generated unit /a.vue.ts of document /a.vue and the plain file      *)
(* /b.ts; the unit's mapping ranges may target /a.vue or another document. *)
(***************************************************************************)
DgUnit == "/a.vue.ts"
DgSource == "/a.vue"
DgOther == "/c.vue"
DgPlain == "/b.ts"
NoFile == "<no file>"
\* diagnostic.start / diagnostic.length === undefined
NoPos == 0 - 1

\* a mapping range: generated [g0, g1] pairs with source [s0, s0 + g1 - g0]
MappingRanges ==
    {r \in [g0 : 0..MaxOff, g1 : 0..MaxOff, s0 : {0, 2}, diagnostic : BOOLEAN,
            source : {DgSource, DgOther}] :
        /\ r.g0 <= r.g1
        /\ r.source = DgOther => r.s0 = 0}

\* does the range claim the generated offset (the end of the range only in
\* the end-inclusive variant)
Covers(r, offset, inclusiveEnd) ==
    /\ r.g0 <= offset
    /\ offset < r.g1 \/ (inclusiveEnd /\ offset = r.g1)

\* map.toSourceOffsets(offset, inclusiveEnd): every [sourceOffset, range] match, in order
toSourceOffsets(map, offset, inclusiveEnd) ==
    LET hits == SelectSeq(map, LAMBDA r : Covers(r, offset, inclusiveEnd))
    IN  [i \in 1..Len(hits) |-> <<hits[i].s0 + (offset - hits[i].g0), hits[i]>>]

\* virtualFiles.getMaps(unit): the unit's ranges per targeted source document
getMaps(sourceFileName) == SelectSeq(dgMappings, LAMBDA r : r.source = sourceFileName)

IsDiagnosticCapable_always(match) == TRUE

\* start[1].data.diagnostic / end[1].data.diagnostic
IsDiagnosticCapable(match) == match[2].diagnostic

\* the matches that carry the diagnostic capability
CapableMatches(matches) == SelectSeq(matches, IsDiagnosticCapable)

\* a variant that takes every file to exist
dgFileExists_always(fileName) == TRUE

\* languageServiceHost.fileExists?.(fileName)
dgFileExists(fileName) ==
    IF fileName = DgSource THEN dgSourceExists
    ELSE IF fileName = DgPlain THEN dgPlainExists
    ELSE FALSE

RECURSIVE transformDiagnostics(_)

\* a variant that leaves the related information as the engine reported it
translateRelated_keep(relatedInformation) == relatedInformation

\* newDiagnostic.relatedInformation = transformDiagnostics(relatedInformation)
translateRelated(relatedInformation) == transformDiagnostics(relatedInformation)

\* onMapping: the diagnostic at [start, end) of the file named fileName
onMapping(diagnostic, fileName, start, end) ==
    [diagnostic EXCEPT !.file = fileName,
                       !.start = start,
                       !.length = end - start,
                       !.relatedInformation = translateRelated(@)]

\* the translation of one diagnostic: a sequence of zero or one diagnostics
transformDiagnostic(d) ==
    IF d.file # NoFile /\ d.start # NoPos /\ d.length # NoPos
    THEN IF d.file = DgUnit
         THEN IF ~dgFileExists(DgSource) THEN <<>>
              ELSE LET starts == CapableMatches(
                                     toSourceOffsets(getMaps(DgSource), d.start, FALSE))
                       ends == CapableMatches(
                                   toSourceOffsets(getMaps(DgSource), d.start + d.length, TRUE))
                   IN  IF starts = <<>> \/ ends = <<>> THEN <<>>
                       ELSE <<onMapping(d, DgSource, starts[1][1], ends[1][1])>>
         ELSE IF ~dgFileExists(d.file) THEN <<>>
              ELSE <<onMapping(d, d.file, d.start, d.start + d.length)>>
    ELSE IF d.file = NoFile THEN <<d>>
    ELSE <<>>

transformDiagnostics(diagnostics) ==
    IF diagnostics = <<>> THEN <<>>
    ELSE transformDiagnostic(Head(diagnostics)) \o transformDiagnostics(Tail(diagnostics))

\* where a diagnostic may lie: at [start, start + length) of the unit or of the
\* plain file, in the plain file without a position, or in no file
Locations ==
    {l \in [file : {DgUnit, DgPlain}, start : 0..MaxOff, length : 0..MaxOff] :
        l.start + l.length <= MaxOff}
    \cup {[file |-> DgPlain, start |-> NoPos, length |-> NoPos],
          [file |-> NoFile, start |-> NoPos, length |-> NoPos]}

\* the entries of a related-information list: they have no list of their own
RelatedInformation ==
    {[id |-> 2, file |-> l.file, start |-> l.start, length |-> l.length,
      relatedInformation |-> <<>>] :
        l \in {m \in Locations : m.file = DgPlain => m.start \in {0, NoPos}}}
RelatedLists == UNION {[1..n -> RelatedInformation] : n \in 0..MaxRelated}

\* the diagnostics the engine may report
Diagnostics(id) ==
    {[id |-> id, file |-> l.file, start |-> l.start, length |-> l.length,
      relatedInformation |-> r] : l \in Locations, r \in RelatedLists}

RangeSeqs == UNION {[1..n -> MappingRanges] : n \in 0..MaxRanges}

DgInit ==
    /\ dgMappings \in RangeSeqs
    /\ dgSourceExists \in BOOLEAN
    /\ dgPlainExists \in BOOLEAN
    /\ dgDiags \in {<<d>> : d \in Diagnostics(1)}
    /\ dgOut = <<>>
    /\ dgPc = "ready"

DgIdle ==
    /\ dgMappings = <<>>
    /\ dgSourceExists = FALSE
    /\ dgPlainExists = FALSE
    /\ dgDiags = <<>>
    /\ dgOut = <<>>
    /\ dgPc = "idle"

TransformDiagnostics ==
    /\ dgPc = "ready"
    /\ dgOut' = transformDiagnostics(dgDiags)
    /\ dgPc' = "done"
    /\ UNCHANGED <<dgMappings, dgSourceExists, dgPlainExists, dgDiags>>
    /\ UNCHANGED <<lcVars, rsVars, wsVars, pgVars, mdVars, stVars, snVars>>

DgNext == TransformDiagnostics


(***************************************************************************)
(* The workspace's resolver.  Paths are sequences of segments:             *)
(* <<"pkgB", "tsconfig.json">> is /pkgB/tsconfig.json and <<>> is /.       *)
(***************************************************************************)
rootTsConfigNames == <<"tsconfig.json", "jsconfig.json">>

CfgRoot == <<"tsconfig.json">>
CfgA == <<"pkgA", "tsconfig.json">>
CfgB == <<"pkgB", "tsconfig.json">>
\* the configuration files on disk
Configs == {CfgRoot, CfgA, CfgB}
\* the document that is resolved
RsDoc == <<"pkgB", "y.vue">>
\* what a project reference may name: a configuration file, or a directory
RefTargets == {CfgRoot, CfgA, <<"pkgB">>}
NoConfig == <<"<undefined>">>

\* path.dirname, path.basename, path.join(dir, name), a.split('/').length
dirname(path) == IF path = <<>> THEN <<>> ELSE SubSeq(path, 1, Len(path) - 1)
basename(path) == IF path = <<>> THEN "" ELSE path[Len(path)]
join(dir, name) == Append(dir, name)
splitLength(path) == Len(path) + 1

\* sys.fileExists, on a disk that holds the given configuration files
sysFileExists(disk, path) == path \in disk

\* isFileInDir(fileName, dir): the file lies below the directory
isFileInDir(fileName, dir) ==
    /\ Len(dir) < Len(fileName)
    /\ SubSeq(fileName, 1, Len(dir)) = dir

\* a variant that leaves configurations of equal depth in a tie
sortTsConfigs_noBaseName(file, a, b) ==
    LET inA == isFileInDir(file, dirname(a))
        inB == isFileInDir(file, dirname(b))
    IN  IF inA # inB
        THEN (IF inB THEN 1 ELSE 0) - (IF inA THEN 1 ELSE 0)
        ELSE splitLength(b) - splitLength(a)

\* sortTsConfigs(file, a, b): negative when a goes first
sortTsConfigs(file, a, b) ==
    LET inA == isFileInDir(file, dirname(a))
        inB == isFileInDir(file, dirname(b))
        aLength == splitLength(a)
        bLength == splitLength(b)
    IN  IF inA # inB
        THEN (IF inB THEN 1 ELSE 0) - (IF inA THEN 1 ELSE 0)
        ELSE IF aLength = bLength
        THEN (IF basename(b) = "tsconfig.json" THEN 1 ELSE 0)
             - (IF basename(a) = "tsconfig.json" THEN 1 ELSE 0)
        ELSE bLength - aLength

\* Array.prototype.sort with a comparator (stable): insertion from the left
RECURSIVE insertSorted(_, _, _)
insertSorted(file, sorted, x) ==
    IF sorted = <<>> THEN <<x>>
    ELSE IF sortTsConfigs(file, x, sorted[Len(sorted)]) < 0
    THEN Append(insertSorted(file, SubSeq(sorted, 1, Len(sorted) - 1), x), sorted[Len(sorted)])
    ELSE Append(sorted, x)

RECURSIVE sortConfigs(_, _)
sortConfigs(file, list) ==
    IF list = <<>> THEN <<>>
    ELSE insertSorted(file, sortConfigs(file, SubSeq(list, 1, Len(list) - 1)), list[Len(list)])

\* the elements of a set of configurations as an array, in one fixed order (the
\* comparator ranks the configurations of the model strictly, so the order of
\* insertion does not show in the sorted array)
RECURSIVE asArray(_)
asArray(set) ==
    IF set = {} THEN <<>>
    ELSE LET x == CHOOSE c \in set : \A d \in set : Len(c) < Len(d) \/ c = d
                                         \/ (Len(c) = Len(d) /\ c[1] = "pkgA")
         IN  <<x>> \o asArray(set \ {x})

\* Array.prototype.indexOf (0-based, -1 when absent)
indexOf(array, x) ==
    IF \E i \in 1..Len(array) : array[i] = x
    THEN (CHOOSE i \in 1..Len(array) : array[i] = x /\ \A j \in 1..(i - 1) : array[j] # x) - 1
    ELSE -1

\* Array.prototype.reverse
reverse(array) == [i \in 1..Len(array) |-> array[Len(array) + 1 - i]]

Max(a, b) == IF a > b THEN a ELSE b

(***************************************************************************)
(* findMatchConfigs: the walk up the document's ancestor directories.      *)
(* The loop is unrolled with a count of its iterations.                    *)
(***************************************************************************)
\* the iterations the walk may take before the model gives up on it
WalkLimit == Len(RsDoc) + 2

RECURSIVE walkUp(_, _, _, _, _)
walkUp(disk, dir, searched, roots, steps) ==
    IF steps > WalkLimit THEN [searched |-> searched, roots |-> roots, steps |-> steps]
    ELSE IF dir \in searched THEN [searched |-> searched, roots |-> roots, steps |-> steps]
    ELSE walkUp(disk,
                dirname(dir),
                searched \cup {dir},
                roots \cup {join(dir, rootTsConfigNames[i]) : i \in
                                {j \in 1..Len(rootTsConfigNames) :
                                    sysFileExists(disk, join(dir, rootTsConfigNames[j]))}},
                steps + 1)

(***************************************************************************)
(* getReferencesChains.  A call's result: the chains, the Projects that    *)
(* exist afterwards (getParsedCommandLine creates missing ones), the       *)
(* deepest recursion reached, and whether the model gave up on it.         *)
(***************************************************************************)
\* the recursion depth at which the model gives up on a traversal
DepthLimit == 2 * Cardinality(Configs) + 2

\* lines 195-207: a reference to a directory names its tsconfig.json or jsconfig.json
resolveReference(path) ==
    IF ~sysFileExists(Configs, path)
    THEN IF sysFileExists(Configs, join(path, "tsconfig.json")) THEN join(path, "tsconfig.json")
         ELSE IF sysFileExists(Configs, join(path, "jsconfig.json")) THEN join(path, "jsconfig.json")
         ELSE path
    ELSE path

cycleIndex_never(before, tsConfig, tsConfigPath) == -1

\* is the referenced configuration one the traversal came through (-1: no)
cycleIndex(before, tsConfig, tsConfigPath) == indexOf(before, tsConfigPath)

RECURSIVE getReferencesChains(_, _, _, _)
RECURSIVE eachReference(_, _, _, _, _)

eachReference(tsConfig, before, i, depth, acc) ==
    IF i > Len(rsRefs[tsConfig]) \/ acc.overflow THEN acc
    ELSE LET tsConfigPath == resolveReference(rsRefs[tsConfig][i])
             beforeIndex == cycleIndex(before, tsConfig, tsConfigPath)
         IN  IF beforeIndex >= 0
             THEN eachReference(tsConfig, before, i + 1, depth,
                      [acc EXCEPT !.chains =
                           Append(@, SubSeq(before, 1, Max(beforeIndex, 1)))])
             ELSE LET sub == getReferencesChains(tsConfigPath, Append(before, tsConfig),
                                                 acc.projects \cup {tsConfigPath}, depth + 1)
                  IN  eachReference(tsConfig, before, i + 1, depth,
                          [chains |-> acc.chains \o sub.chains,
                           projects |-> sub.projects,
                           depth |-> Max(acc.depth, sub.depth),
                           overflow |-> sub.overflow])

getReferencesChains(tsConfig, before, projects, depth) ==
    IF depth > DepthLimit
    THEN [chains |-> <<>>, projects |-> projects, depth |-> depth, overflow |-> TRUE]
    ELSE IF rsRefs[tsConfig] # <<>>
    THEN eachReference(tsConfig, before, 1, depth,
             [chains |-> <<>>, projects |-> projects, depth |-> depth, overflow |-> FALSE])
    ELSE [chains |-> <<Append(before, tsConfig)>>, projects |-> projects,
          depth |-> depth, overflow |-> FALSE]

(***************************************************************************)
(* findTsconfig(match).  The state threaded through its loops: the         *)
(* Projects, the checked set, what was found, the traversal statistics.    *)
(***************************************************************************)
chainOrder_rootFirst(chain) == chain

\* the order in which the configurations of a chain are tested
chainOrder(chain) == reverse(chain)

\* a variant that searches the chains as getReferencesChains returned them
chainsOrder_asReturned(chains) == chains

\* the chains of a root in the order they are searched
chainsOrder(chains) == IF rsReverse THEN reverse(chains) ELSE chains

rootIsSearched_always(rootTsConfig, projects) == TRUE

\* does findTsconfig look at this root configuration
rootIsSearched(rootTsConfig, projects) == rootTsConfig \in projects

\* match of findDirectIncludeTsconfig: parses the configuration, then looks it up
\* match of findIndirectReferenceTsconfig: asks the configuration's engine, if any
matchConfig(phase, tsconfig, projects) ==
    IF phase = "direct"
    THEN [hit |-> rsDirect[tsconfig], projects |-> projects \cup {tsconfig}]
    ELSE [hit |-> tsconfig \in projects /\ rsEngine[tsconfig] = "loaded",
          projects |-> projects]

RECURSIVE eachChainEntry(_, _, _, _)
eachChainEntry(phase, entries, i, st) ==
    IF i > Len(entries) \/ st.found # NoConfig THEN st
    ELSE IF entries[i] \in st.checked THEN eachChainEntry(phase, entries, i + 1, st)
    ELSE LET m == matchConfig(phase, entries[i], st.projects)
             st1 == [st EXCEPT !.checked = @ \cup {entries[i]},
                               !.projects = m.projects,
                               !.examined = Append(@, entries[i])]
         IN  IF m.hit THEN [st1 EXCEPT !.found = entries[i]]
             ELSE eachChainEntry(phase, entries, i + 1, st1)

RECURSIVE eachChain(_, _, _, _)
eachChain(phase, chains, i, st) ==
    IF i > Len(chains) \/ st.found # NoConfig THEN st
    ELSE eachChain(phase, chains, i + 1, eachChainEntry(phase, chainOrder(chains[i]), 1, st))

RECURSIVE eachRoot(_, _, _, _)
eachRoot(phase, sortedRoots, i, st) ==
    IF i > Len(sortedRoots) \/ st.found # NoConfig \/ st.overflow THEN st
    ELSE IF ~rootIsSearched(sortedRoots[i], st.projects)
    THEN eachRoot(phase, sortedRoots, i + 1,
                  [st EXCEPT !.visited = Append(@, sortedRoots[i])])
    ELSE LET r == getReferencesChains(sortedRoots[i], <<>>, st.projects, 1)
             st1 == [st EXCEPT !.projects = r.projects,
                               !.visited = Append(@, sortedRoots[i]),
                               !.depth = Max(@, r.depth),
                               !.overflow = r.overflow,
                               !.chains = Append(@, r.chains)]
         IN  eachRoot(phase, sortedRoots, i + 1,
                      eachChain(phase, chainsOrder(r.chains), 1, st1))

findTsconfig(phase, roots, projects) ==
    eachRoot(phase, sortConfigs(RsDoc, asArray(roots)), 1,
             [found |-> NoConfig, projects |-> projects, checked |-> {},
              examined |-> <<>>, visited |-> <<>>, chains |-> <<>>, depth |-> 0,
              overflow |-> FALSE])

\* the matches of prepareClosestootParsedCommandLine, sorted
closestMatches(roots) ==
    sortConfigs(RsDoc, asArray({c \in roots : isFileInDir(RsDoc, dirname(c))}))

\* prepareClosestootParsedCommandLine: the Projects after it
prepareClosestootParsedCommandLine(roots, projects) ==
    LET matches == closestMatches(roots)
    IN  IF matches # <<>> THEN projects \cup {matches[1]} ELSE projects

\* findMatchConfigs(uri), run from the workspace state the inputs describe
findMatchConfigs ==
    LET walk == walkUp(Configs, dirname(RsDoc), rsSearched0, rsRoots0, 0)
        projects0 == {c \in Configs : rsEngine[c] # "none"}
        prepared == prepareClosestootParsedCommandLine(walk.roots, projects0)
        direct == findTsconfig("direct", walk.roots, prepared)
        indirect == findTsconfig("indirect", walk.roots, direct.projects)
    IN  [tsconfig |-> IF direct.found # NoConfig THEN direct.found ELSE indirect.found,
         via |-> IF direct.found # NoConfig THEN "direct"
                 ELSE IF indirect.found # NoConfig THEN "indirect" ELSE "none",
         roots |-> walk.roots,
         searched |-> walk.searched,
         walkSteps |-> walk.steps,
         prepared |-> prepared,
         projects |-> IF direct.found # NoConfig THEN direct.projects ELSE indirect.projects,
         directExamined |-> direct.examined,
         directVisited |-> direct.visited,
         indirectVisited |-> IF direct.found # NoConfig THEN <<>> ELSE indirect.visited,
         directChains |-> direct.chains,
         indirectExamined |-> IF direct.found # NoConfig THEN <<>> ELSE indirect.examined,
         indirectChains |-> IF direct.found # NoConfig THEN <<>> ELSE indirect.chains,
         depth |-> Max(direct.depth, indirect.depth),
         overflow |-> direct.overflow \/ indirect.overflow]

\* the reference lists a configuration may declare
RefLists ==
    {<<>>} \cup {<<t>> : t \in RefTargets}
    \cup {<<t, u>> : t \in RefTargets, u \in RefTargets}

\* rootTsConfigs and searchedDirs before the call: nothing searched yet, or the
\* root directory searched by an earlier resolution
WorkspacesBefore ==
    {<<{}, {}>>, <<{CfgA}, {}>>, <<{CfgRoot}, {<<>>}>>, <<{CfgRoot, CfgA}, {<<>>}>>}

RsInit ==
    /\ rsRefs \in {g \in [Configs -> RefLists] :
                     Len(g[CfgRoot]) + Len(g[CfgA]) + Len(g[CfgB]) <= MaxEdges}
    /\ rsDirect \in [Configs -> BOOLEAN]
    /\ rsEngine \in [Configs -> {"none", "project", "loaded"}]
    /\ \E before \in WorkspacesBefore :
           /\ rsRoots0 = before[1]
           /\ rsSearched0 = before[2]
    /\ rsReverse \in BOOLEAN
    /\ rsOut = [tsconfig |-> NoConfig]
    /\ rsPc = "ready"

RsIdle ==
    /\ rsRefs = [c \in Configs |-> <<>>]
    /\ rsDirect = [c \in Configs |-> FALSE]
    /\ rsEngine = [c \in Configs |-> "none"]
    /\ rsRoots0 = {}
    /\ rsSearched0 = {}
    /\ rsReverse = FALSE
    /\ rsOut = [tsconfig |-> NoConfig]
    /\ rsPc = "idle"

Resolve ==
    /\ rsPc = "ready"
    /\ rsOut' = findMatchConfigs
    /\ rsPc' = "done"
    /\ UNCHANGED <<rsRefs, rsDirect, rsEngine, rsRoots0, rsSearched0, rsReverse>>
    /\ UNCHANGED <<lcVars, dgVars, wsVars, pgVars, mdVars, stVars, snVars>>

RsNext == Resolve


(***************************************************************************)
(* The workspace over time.  One configuration file, /pkgB/tsconfig.json,  *)
(* and one document below it.  A Project is a promise: "pending" until     *)
(* createProject settles, then "resolved" or "rejected"; the reactions     *)
(* registered on it (an awaiting call, a .then(dispose)) run as microtasks *)
(* in the order they were registered.  Watch events, new calls and the     *)
(* settling of a promise are tasks: they run when no microtask is queued.  *)
(***************************************************************************)
WsConfigs == {CfgB}
Insts == 1..MaxInst
Calls == 1..MaxCalls
\* the workspace's rootUri
WsRootDir == <<>>

ResumeJob(c) == <<"resume", c>>
DisposeJob(i) == <<"dispose", i>>

\* the files of the disk
WsDisk == IF wsExists THEN WsConfigs ELSE {}

\* the part of the workspace state that the steps of a call thread through
WsState == [map |-> wsProjects, insts |-> wsInst, next |-> wsNextId, micro |-> wsMicro]

\* await p / p.then(job): run the job when p is settled (at once if it is, or if
\* p is undefined)
Await(w, p, job) ==
    IF p # 0 /\ w.insts[p].status = "pending"
    THEN [w EXCEPT !.insts[p].reactions = Append(@, job)]
    ELSE [w EXCEPT !.micro = Append(@, job)]

\* project?.then(project => project.dispose()) and (await project)?.dispose():
\* nothing runs if the promise is undefined or rejected
ThenDispose(w, p) ==
    IF p = 0 \/ w.insts[p].status = "rejected" THEN w
    ELSE Await(w, p, DisposeJob(p))

\* may getProjectByCreate run: the model creates at most MaxInst promises
CanGetProject(w, tsConfig) == w.map[tsConfig] # 0 \/ w.next <= MaxInst

\* getProjectByCreate(tsConfig): the promise in the map, or a new one put there
getProjectByCreate(w, tsConfig) ==
    IF w.map[tsConfig] # 0
    THEN [w |-> w, project |-> w.map[tsConfig]]
    ELSE [w |-> [w EXCEPT !.insts[w.next] = [status |-> "pending", reactions |-> <<>>,
                                              disposed |-> 0, tsConfig |-> tsConfig],
                          !.map[tsConfig] = w.next,
                          !.next = @ + 1],
          project |-> w.next]

NoCall == [pc |-> "idle", awaited |-> 0, tsconfig |-> NoConfig, project |-> 0,
           stale |-> FALSE, reused |-> FALSE]

\* the call suspends at an await of promise p
Suspend(call, pc, tsconfig, p, insts) ==
    [call EXCEPT !.pc = pc, !.awaited = p, !.tsconfig = tsconfig,
                 !.reused = @ \/ (p # 0 /\ pc \in {"prepare", "match", "final"}
                                  /\ insts[p].status = "rejected")]

\* the awaited promise was rejected: the await throws
AwaitThrows(c) == wsCalls[c].awaited # 0 /\ wsInst[wsCalls[c].awaited].status = "rejected"

\* the head of the microtask queue resumes call c at pc
Resumes(c, pc) ==
    /\ wsMicro # <<>>
    /\ Head(wsMicro) = ResumeJob(c)
    /\ wsCalls[c].pc = pc

Popped == [WsState EXCEPT !.micro = Tail(wsMicro)]

SetWs(w) ==
    /\ wsProjects' = w.map
    /\ wsInst' = w.insts
    /\ wsNextId' = w.next
    /\ wsMicro' = w.micro

WsInit ==
    /\ wsProjects = [c \in WsConfigs |-> 0]
    /\ wsInferred = 0
    /\ wsInst = [i \in Insts |-> [status |-> "unused", reactions |-> <<>>,
                                  disposed |-> 0, tsConfig |-> NoConfig]]
    /\ wsNextId = 1
    /\ wsRoots = {}
    /\ wsSearched = {}
    /\ wsExists = TRUE
    /\ wsLists \in BOOLEAN
    /\ wsWatching = TRUE
    /\ wsCalls = [c \in Calls |-> NoCall]
    /\ wsMicro = <<>>
    /\ wsOps = 0
    /\ wsRemoved = {}

WsIdle ==
    /\ wsProjects = [c \in WsConfigs |-> 0]
    /\ wsInferred = 0
    /\ wsInst = [i \in Insts |-> [status |-> "unused", reactions |-> <<>>,
                                  disposed |-> 0, tsConfig |-> NoConfig]]
    /\ wsNextId = 1
    /\ wsRoots = {}
    /\ wsSearched = {}
    /\ wsExists = FALSE
    /\ wsLists = FALSE
    /\ wsWatching = FALSE
    /\ wsCalls = [c \in Calls |-> NoCall]
    /\ wsMicro = <<>>
    /\ wsOps = 0
    /\ wsRemoved = {}

\* getProjectAndTsConfig(uri) up to its first await: the walk up the ancestors and
\* prepareClosestootParsedCommandLine
StartCall(c) ==
    /\ wsMicro = <<>>
    /\ wsCalls[c].pc = "idle"
    /\ \A b \in Calls : b < c => wsCalls[b].pc # "idle"
    /\ LET walk == walkUp(WsDisk, dirname(RsDoc), wsSearched, wsRoots, 0)
           matches == closestMatches(walk.roots)
       IN  /\ wsSearched' = walk.searched
           /\ wsRoots' = walk.roots
           /\ IF matches # <<>>
              THEN /\ CanGetProject(WsState, matches[1])
                   /\ LET g == getProjectByCreate(WsState, matches[1])
                      IN  /\ SetWs(Await(g.w, g.project, ResumeJob(c)))
                          /\ wsCalls' = [wsCalls EXCEPT ![c] =
                                 Suspend(@, "prepare", NoConfig, g.project, wsInst)]
              ELSE /\ SetWs(Await(WsState, 0, ResumeJob(c)))
                   /\ wsCalls' = [wsCalls EXCEPT ![c] =
                          Suspend(@, "prepare", NoConfig, 0, wsInst)]
    /\ UNCHANGED <<wsInferred, wsExists, wsLists, wsWatching, wsOps, wsRemoved>>
    /\ UNCHANGED <<lcVars, dgVars, rsVars, pgVars, mdVars, stVars, snVars>>

\* the call ends with an exception
Fail(c) ==
    /\ SetWs(Popped)
    /\ wsCalls' = [wsCalls EXCEPT ![c].pc = "failed"]

\* the call returns undefined: no configuration matched
ReturnUndefined(c) ==
    /\ SetWs(Popped)
    /\ wsCalls' = [wsCalls EXCEPT ![c].pc = "done", ![c].project = 0,
                                  ![c].tsconfig = NoConfig]

\* findTsconfig's loop reaches a root: await projects.pathGet(rootTsConfig)
AwaitRoot(c, pc, sortedRoots) ==
    IF sortedRoots = <<>> THEN ReturnUndefined(c)
    ELSE /\ SetWs(Await(Popped, wsProjects[sortedRoots[1]], ResumeJob(c)))
         /\ wsCalls' = [wsCalls EXCEPT ![c] =
                Suspend(@, pc, sortedRoots[1], wsProjects[sortedRoots[1]], wsInst)]

\* after prepareClosestootParsedCommandLine: findDirectIncludeTsconfig starts
RunPrepared(c) ==
    /\ Resumes(c, "prepare")
    /\ IF AwaitThrows(c) THEN Fail(c)
       ELSE AwaitRoot(c, "rootGet", sortConfigs(RsDoc, asArray(wsRoots)))
    /\ UNCHANGED <<wsInferred, wsRoots, wsSearched, wsExists, wsLists, wsWatching,
                   wsOps, wsRemoved>>
    /\ UNCHANGED <<lcVars, dgVars, rsVars, pgVars, mdVars, stVars, snVars>>

\* the direct pass has the root's Project (or none): match(tsconfig) parses it
RunRootGet(c) ==
    /\ Resumes(c, "rootGet")
    /\ IF AwaitThrows(c) THEN Fail(c)
       ELSE IF wsCalls[c].awaited = 0
       THEN \* no Project: the direct pass is over, the indirect pass starts
            AwaitRoot(c, "rootGet2", sortConfigs(RsDoc, asArray(wsRoots)))
       ELSE /\ CanGetProject(Popped, wsCalls[c].tsconfig)
            /\ LET g == getProjectByCreate(Popped, wsCalls[c].tsconfig)
               IN  /\ SetWs(Await(g.w, g.project, ResumeJob(c)))
                   /\ wsCalls' = [wsCalls EXCEPT ![c] =
                          Suspend(@, "match", wsCalls[c].tsconfig, g.project, wsInst)]
    /\ UNCHANGED <<wsInferred, wsRoots, wsSearched, wsExists, wsLists, wsWatching,
                   wsOps, wsRemoved>>
    /\ UNCHANGED <<lcVars, dgVars, rsVars, pgVars, mdVars, stVars, snVars>>

\* the configuration is parsed: a direct match goes on to getProjectByCreate in
\* getProjectAndTsConfig, otherwise the indirect pass starts
RunMatch(c) ==
    /\ Resumes(c, "match")
    /\ IF AwaitThrows(c) THEN Fail(c)
       ELSE IF wsLists
       THEN /\ CanGetProject(Popped, wsCalls[c].tsconfig)
            /\ LET g == getProjectByCreate(Popped, wsCalls[c].tsconfig)
               IN  /\ SetWs(Await(g.w, g.project, ResumeJob(c)))
                   /\ wsCalls' = [wsCalls EXCEPT ![c] =
                          Suspend(@, "final", wsCalls[c].tsconfig, g.project, wsInst)]
       ELSE AwaitRoot(c, "rootGet2", sortConfigs(RsDoc, asArray(wsRoots)))
    /\ UNCHANGED <<wsInferred, wsRoots, wsSearched, wsExists, wsLists, wsWatching,
                   wsOps, wsRemoved>>
    /\ UNCHANGED <<lcVars, dgVars, rsVars, pgVars, mdVars, stVars, snVars>>

\* the indirect pass has the root's Project (or none): match(tsconfig) awaits
\* projects.pathGet(tsconfig)
RunRootGet2(c) ==
    /\ Resumes(c, "rootGet2")
    /\ IF AwaitThrows(c) THEN Fail(c)
       ELSE IF wsCalls[c].awaited = 0 THEN ReturnUndefined(c)
       ELSE /\ SetWs(Await(Popped, wsProjects[wsCalls[c].tsconfig], ResumeJob(c)))
            /\ wsCalls' = [wsCalls EXCEPT ![c] =
                   Suspend(@, "matchIndirect", wsCalls[c].tsconfig,
                           wsProjects[wsCalls[c].tsconfig], wsInst)]
    /\ UNCHANGED <<wsInferred, wsRoots, wsSearched, wsExists, wsLists, wsWatching,
                   wsOps, wsRemoved>>
    /\ UNCHANGED <<lcVars, dgVars, rsVars, pgVars, mdVars, stVars, snVars>>

\* no engine of this workspace has a language service yet, so
\* getLanguageServiceDontCreate() is undefined and nothing matches indirectly
RunMatchIndirect(c) ==
    /\ Resumes(c, "matchIndirect")
    /\ IF AwaitThrows(c) THEN Fail(c) ELSE ReturnUndefined(c)
    /\ UNCHANGED <<wsInferred, wsRoots, wsSearched, wsExists, wsLists, wsWatching,
                   wsOps, wsRemoved>>
    /\ UNCHANGED <<lcVars, dgVars, rsVars, pgVars, mdVars, stVars, snVars>>

\* getProjectAndTsConfig returns { tsconfig, project }
RunFinal(c) ==
    /\ Resumes(c, "final")
    /\ IF AwaitThrows(c) THEN Fail(c)
       ELSE /\ SetWs(Popped)
            /\ wsCalls' = [wsCalls EXCEPT ![c].pc = "done",
                                          ![c].project = wsCalls[c].awaited,
                                          ![c].stale = wsCalls[c].awaited \in wsRemoved]
    /\ UNCHANGED <<wsInferred, wsRoots, wsSearched, wsExists, wsLists, wsWatching,
                   wsOps, wsRemoved>>
    /\ UNCHANGED <<lcVars, dgVars, rsVars, pgVars, mdVars, stVars, snVars>>

\* project.dispose() runs
RunDispose(i) ==
    /\ wsMicro # <<>>
    /\ Head(wsMicro) = DisposeJob(i)
    /\ SetWs([Popped EXCEPT !.insts[i].disposed = @ + 1])
    /\ UNCHANGED <<wsInferred, wsRoots, wsSearched, wsExists, wsLists, wsWatching,
                   wsCalls, wsOps, wsRemoved>>
    /\ UNCHANGED <<lcVars, dgVars, rsVars, pgVars, mdVars, stVars, snVars>>

\* createProject settles: the reactions become microtasks, in their order; a
\* rejection skips the dispose reactions
SettleCreate(i, ok) ==
    /\ wsMicro = <<>>
    /\ wsInst[i].status = "pending"
    /\ wsInst' = [wsInst EXCEPT ![i].status = IF ok THEN "resolved" ELSE "rejected",
                                ![i].reactions = <<>>]
    /\ wsMicro' = IF ok THEN wsInst[i].reactions
                  ELSE SelectSeq(wsInst[i].reactions, LAMBDA job : job[1] = "resume")
    /\ UNCHANGED <<wsProjects, wsInferred, wsNextId, wsRoots, wsSearched, wsExists,
                   wsLists, wsWatching, wsCalls, wsOps, wsRemoved>>
    /\ UNCHANGED <<lcVars, dgVars, rsVars, pgVars, mdVars, stVars, snVars>>

\* the watch handler, one change per event
WatchCreated ==
    /\ wsMicro = <<>> /\ wsWatching /\ wsOps < MaxWsOps /\ ~wsExists
    /\ wsExists' = TRUE
    /\ wsRoots' = IF isFileInDir(CfgB, WsRootDir) THEN wsRoots \cup {CfgB} ELSE wsRoots
    /\ wsOps' = wsOps + 1
    /\ UNCHANGED <<wsProjects, wsInferred, wsInst, wsNextId, wsSearched, wsLists,
                   wsWatching, wsCalls, wsMicro, wsRemoved>>
    /\ UNCHANGED <<lcVars, dgVars, rsVars, pgVars, mdVars, stVars, snVars>>

WatchChangedOrDeleted(deleted) ==
    /\ wsMicro = <<>> /\ wsWatching /\ wsOps < MaxWsOps /\ wsExists
    /\ wsExists' = ~deleted
    /\ wsOps' = wsOps + 1
    /\ IF wsProjects[CfgB] # 0
       THEN /\ wsRoots' = IF deleted THEN wsRoots \ {CfgB} ELSE wsRoots
            /\ SetWs(ThenDispose([WsState EXCEPT !.map[CfgB] = 0], wsProjects[CfgB]))
            /\ wsRemoved' = wsRemoved \cup {wsProjects[CfgB]}
       ELSE UNCHANGED <<wsRoots, wsProjects, wsInst, wsNextId, wsMicro, wsRemoved>>
    /\ UNCHANGED <<wsInferred, wsSearched, wsLists, wsWatching, wsCalls>>
    /\ UNCHANGED <<lcVars, dgVars, rsVars, pgVars, mdVars, stVars, snVars>>

\* a variant that disposes the Projects and keeps them in the map and the slot
clearProjects_keep ==
    /\ SetWs(ThenDispose(ThenDispose(WsState, wsInferred), wsProjects[CfgB]))
    /\ wsInferred' = wsInferred
    /\ wsRemoved' = wsRemoved \cup ({wsInferred, wsProjects[CfgB]} \ {0})

\* clearProjects
clearProjects ==
    /\ SetWs(ThenDispose(ThenDispose([WsState EXCEPT !.map = [c \in WsConfigs |-> 0]],
                                     wsInferred),
                         wsProjects[CfgB]))
    /\ wsInferred' = 0
    /\ wsRemoved' = wsRemoved \cup ({wsInferred, wsProjects[CfgB]} \ {0})

Reload ==
    /\ wsMicro = <<>> /\ wsOps < MaxWsOps
    /\ clearProjects
    /\ wsOps' = wsOps + 1
    /\ UNCHANGED <<wsRoots, wsSearched, wsExists, wsLists, wsWatching, wsCalls>>
    /\ UNCHANGED <<lcVars, dgVars, rsVars, pgVars, mdVars, stVars, snVars>>

\* dispose() of the workspace
DisposeWorkspace ==
    /\ wsMicro = <<>> /\ wsOps < MaxWsOps /\ wsWatching
    /\ clearProjects
    /\ wsWatching' = FALSE
    /\ wsOps' = wsOps + 1
    /\ UNCHANGED <<wsRoots, wsSearched, wsExists, wsLists, wsCalls>>
    /\ UNCHANGED <<lcVars, dgVars, rsVars, pgVars, mdVars, stVars, snVars>>

\* getInferredProject()
GetInferredProject ==
    /\ wsMicro = <<>>
    /\ wsInferred = 0
    /\ wsNextId <= MaxInst
    /\ wsInferred' = wsNextId
    /\ wsInst' = [wsInst EXCEPT ![wsNextId] = [status |-> "pending", reactions |-> <<>>,
                                                disposed |-> 0, tsConfig |-> NoConfig]]
    /\ wsNextId' = wsNextId + 1
    /\ UNCHANGED <<wsProjects, wsRoots, wsSearched, wsExists, wsLists, wsWatching,
                   wsCalls, wsMicro, wsOps, wsRemoved>>
    /\ UNCHANGED <<lcVars, dgVars, rsVars, pgVars, mdVars, stVars, snVars>>

WsNext ==
    \/ \E c \in Calls : StartCall(c)
    \/ \E c \in Calls : RunPrepared(c)
    \/ \E c \in Calls : RunRootGet(c)
    \/ \E c \in Calls : RunMatch(c)
    \/ \E c \in Calls : RunRootGet2(c)
    \/ \E c \in Calls : RunMatchIndirect(c)
    \/ \E c \in Calls : RunFinal(c)
    \/ \E i \in Insts : RunDispose(i)
    \/ \E i \in Insts, ok \in BOOLEAN : SettleCreate(i, ok)
    \/ WatchCreated
    \/ \E deleted \in BOOLEAN : WatchChangedOrDeleted(deleted)
    \/ Reload
    \/ DisposeWorkspace
    \/ GetInferredProject

(***************************************************************************)
(* The program overlay: the Proxy that getProgram returns.  The language   *)
(* service may build a new program between any two accesses.  A value is a *)
(* pair: <<"built", k>> is what the k-th program was built with,           *)
(* <<"written", v>> was written by a caller, <<"overlay", 0>> is one of the *)
(* overlay's own operations.                                               *)
(***************************************************************************)
\* the operations the overlay overrides (the keys of `proxy`)
proxyProperties == {"getRootFileNames", "emit", "getSyntacticDiagnostics",
                    "getSemanticDiagnostics", "getGlobalDiagnostics",
                    "getBindAndCheckDiagnostics"}
\* the properties every program is built with, and one it is not built with
BuiltProperties == {"emit", "getTypeChecker"}
PgProperties == BuiltProperties \cup {"structureIsReused"}
PgAbsent == <<"absent", 0>>
PgUndefined == <<"undefined", 0>>
PgWritten == {<<"written", v>> : v \in 1..MaxWritten}

\* the k-th program as the language service builds it
BuiltProgram(k) == [p \in PgProperties |-> IF p \in BuiltProperties THEN <<"built", k>>
                                           ELSE PgAbsent]

\* a variant that keeps the program the overlay was created over
getProgram_cached == pgPrograms[1]

\* getProgram(): ls.getProgram()
getProgram == pgPrograms[Len(pgPrograms)]

\* object[property]
propertyOf(object, property) ==
    IF object[property] = PgAbsent THEN PgUndefined ELSE object[property]

\* the Proxy's get trap
overlayGet(property) ==
    IF property \in proxyProperties THEN <<"overlay", 0>>
    ELSE IF getProgram[property] # PgAbsent THEN getProgram[property]
    ELSE propertyOf(pgTarget, property)

PgInit ==
    /\ pgPrograms = <<BuiltProgram(1)>>
    /\ pgTarget = [p \in PgProperties |-> PgAbsent]
    /\ pgOp = "init"
    /\ pgProp = NoVal
    /\ pgRead = PgUndefined

PgIdle ==
    /\ pgPrograms = <<>>
    /\ pgTarget = [p \in PgProperties |-> PgAbsent]
    /\ pgOp = "idle"
    /\ pgProp = NoVal
    /\ pgRead = PgUndefined

\* the language service rebuilds its program
Rebuild ==
    /\ Len(pgPrograms) < MaxPrograms
    /\ pgPrograms' = Append(pgPrograms, BuiltProgram(Len(pgPrograms) + 1))
    /\ pgOp' = "rebuild"
    /\ pgProp' = NoVal
    /\ UNCHANGED <<pgTarget, pgRead>>
    /\ UNCHANGED <<lcVars, dgVars, rsVars, wsVars, mdVars, stVars, snVars>>

\* a read of a property through the overlay
OverlayGet(property) ==
    /\ pgRead' = overlayGet(property)
    /\ pgOp' = "get"
    /\ pgProp' = property
    /\ UNCHANGED <<pgPrograms, pgTarget>>
    /\ UNCHANGED <<lcVars, dgVars, rsVars, wsVars, mdVars, stVars, snVars>>

\* the Proxy's set trap: target[property] = program[property] = newValue
OverlaySet(property, newValue) ==
    /\ pgPrograms' = [pgPrograms EXCEPT ![Len(pgPrograms)] =
                          [getProgram EXCEPT ![property] = newValue]]
    /\ pgTarget' = [pgTarget EXCEPT ![property] = newValue]
    /\ pgOp' = "set"
    /\ pgProp' = property
    /\ pgRead' = newValue
    /\ UNCHANGED <<lcVars, dgVars, rsVars, wsVars, mdVars, stVars, snVars>>

PgNext ==
    \/ Rebuild
    \/ \E property \in PgProperties : OverlayGet(property)
    \/ \E property \in PgProperties, newValue \in PgWritten : OverlaySet(property, newValue)

(***************************************************************************)
(* createLanguageContext(host, languageModules): the host is wrapped in    *)
(* the modules' proxies, and the store of generated trees is created over  *)
(* the modules.  Modules are numbers; the document is one that some of     *)
(* them accept.                                                            *)
(***************************************************************************)
Modules == 1..MaxModules

\* the arrays a caller may register: modules in any order, none twice
ModuleArrays ==
    {a \in UNION {[1..n -> Modules] : n \in 1..MaxModules} :
        \A i, j \in 1..Len(a) : i # j => a[i] # a[j]}

\* languageModules.reverse(): reverses the array in place and returns it
reverseInPlace(array) == reverse(array)

\* the proxies after the loop over languageModules.reverse(): every module with
\* proxyLanguageServiceHost wraps the host built so far, so the module the loop
\* reaches last is the outermost layer
proxyLayers(looped, proxies) == reverse(SelectSeq(looped, LAMBDA m : m \in proxies))

\* createVirtualFiles(languageModules): the array as it is at that line
storeModules(array) == array

\* updateSource: the first module of the store's array that accepts (0: none)
firstAccepting(modules, accepts) ==
    LET accepting == SelectSeq(modules, LAMBDA m : m \in accepts)
    IN  IF accepting = <<>> THEN 0 ELSE accepting[1]

MdInit ==
    /\ mdRegistered \in ModuleArrays
    /\ mdModules = mdRegistered
    /\ mdProxies \in SUBSET Modules
    /\ mdAccepts \in SUBSET Modules
    /\ mdHost = <<>>
    /\ mdStore = <<>>
    /\ mdTree = 0
    /\ mdPc = "new"

MdIdle ==
    /\ mdRegistered = <<>>
    /\ mdModules = <<>>
    /\ mdProxies = {}
    /\ mdAccepts = {}
    /\ mdHost = <<>>
    /\ mdStore = <<>>
    /\ mdTree = 0
    /\ mdPc = "idle"

CreateLanguageContext ==
    /\ mdPc = "new"
    /\ mdModules' = reverseInPlace(mdModules)
    /\ mdHost' = proxyLayers(reverseInPlace(mdModules), mdProxies)
    /\ mdStore' = storeModules(reverseInPlace(mdModules))
    /\ mdPc' = "created"
    /\ UNCHANGED <<mdRegistered, mdProxies, mdAccepts, mdTree>>
    /\ UNCHANGED <<lcVars, dgVars, rsVars, wsVars, pgVars, stVars, snVars>>

\* virtualFiles.updateSource(fileName, snapshot, languageId) for the document
UpdateSource ==
    /\ mdPc = "created"
    /\ mdTree' = firstAccepting(mdStore, mdAccepts)
    /\ mdPc' = "updated"
    /\ UNCHANGED <<mdRegistered, mdModules, mdProxies, mdAccepts, mdHost, mdStore>>
    /\ UNCHANGED <<lcVars, dgVars, rsVars, wsVars, pgVars, stVars, snVars>>

MdNext ==
    \/ CreateLanguageContext
    \/ UpdateSource

(***************************************************************************)
(* Sorting the candidates: [...rootTsConfigs].sort((a, b) =>               *)
(* sortTsConfigs(file, a, b)) on its own, for documents and candidate      *)
(* configurations at several depths.                                       *)
(***************************************************************************)
\* the array holds at most this many candidates
MaxCandidates == 3

SortDirs == {<<>>, <<"pkgA">>, <<"pkgB">>, <<"pkgB", "sub">>}
\* the candidates: tsconfig.json and jsconfig.json of every directory
SortPool == {join(d, rootTsConfigNames[i]) : d \in SortDirs, i \in 1..Len(rootTsConfigNames)}
SortFiles == {<<"x.vue">>, <<"pkgB", "y.vue">>, <<"pkgB", "sub", "z.vue">>}

\* the arrays a Set of candidates spreads into: no candidate twice
CandidateArrays(n) ==
    {a \in UNION {[1..k -> SortPool] : k \in 1..n} :
        \A i, j \in 1..Len(a) : i # j => a[i] # a[j]}

StInit ==
    /\ stFile \in SortFiles
    /\ stCandidates \in CandidateArrays(MaxCandidates)
    /\ stSorted = <<>>
    /\ stPc = "ready"

StIdle ==
    /\ stFile = <<>>
    /\ stCandidates = <<>>
    /\ stSorted = <<>>
    /\ stPc = "idle"

SortCandidates ==
    /\ stPc = "ready"
    /\ stSorted' = sortConfigs(stFile, stCandidates)
    /\ stPc' = "sorted"
    /\ UNCHANGED <<stFile, stCandidates>>
    /\ UNCHANGED <<lcVars, dgVars, rsVars, wsVars, pgVars, mdVars, snVars>>

StNext == SortCandidates

(***************************************************************************)
(* getScriptSnapshot(fileName) and its cache.  A snapshot is an object:    *)
(* <<"unit", path, n>> is the n-th snapshot of a generated unit,           *)
(* <<"host", path, n>> the n-th snapshot the host made of a file.  The     *)
(* host here keeps a file's version string and snapshot in step: every     *)
(* write gives the file a version string it never had and a new snapshot.  *)
(***************************************************************************)
\* the paths the engine asks the snapshot of
SnapPaths == {"/c.vue.ts", "/b.ts", "/B.ts"}
\* the files the host writes and deletes
WrittenPaths == {"/c.vue", "/b.ts"} \cup ExtraPaths
\* fileName.toLowerCase()
toLowerCase(fileName) == IF fileName = "/B.ts" THEN "/b.ts" ELSE fileName
CacheKeys == {toLowerCase(f) : f \in SnapPaths}

\* getScriptSnapshot returned undefined
NoSnapshot == <<"undefined", "", 0>>
\* a missing entry of scriptSnapshots
NoCache == [has |-> FALSE, version |-> "", snapshot |-> NoSnapshot]

\* cache && cache[0] === version
cacheHit(cache, version) == cache.has /\ cache.version = version

getScriptSnapshot(srcs, vfv, cached, fileName) ==
    LET v == getScriptVersion(srcs, vfv, fileName)
        version == v.ret
        key == toLowerCase(fileName)
        cache == cached[key]
        unit == <<"unit", fileName, UnitSnapshot(srcs, fileName)>>
        tsScript == <<"host", fileName, HostSnapshot(fileName)>>
    IN  IF cacheHit(cache, version)
        THEN [ret |-> cache.snapshot, vfv |-> v.vfv, scriptSnapshots |-> cached]
        ELSE IF hasVirtualFile(srcs, fileName)
        THEN [ret |-> unit, vfv |-> v.vfv,
              scriptSnapshots |-> [cached EXCEPT ![key] =
                  [has |-> TRUE, version |-> version, snapshot |-> unit]]]
        ELSE IF HostSnapshot(fileName) # 0
        THEN [ret |-> tsScript, vfv |-> v.vfv,
              scriptSnapshots |-> [cached EXCEPT ![key] =
                  [has |-> TRUE, version |-> version, snapshot |-> tsScript]]]
        ELSE [ret |-> NoSnapshot, vfv |-> v.vfv, scriptSnapshots |-> cached]

\* the host writes a file: the next version string, a new snapshot
HostWriteFile(f) ==
    LET version == IF f \in Paths THEN hVer[f] ELSE xVer[f]
        exists == HostSnapshot(f) # 0
        newVersion == IF version = "" THEN "0"
                      ELSE IF exists THEN toString(parseInt(version) + 1)
                      ELSE version
        newSnapshot == parseInt(newVersion) + 1 IN
    /\ hostOps < MaxHostOps
    /\ hostOps' = hostOps + 1
    /\ IF f \in Paths
       THEN /\ hSnap' = [hSnap EXCEPT ![f] = newSnapshot]
            /\ hVer' = [hVer EXCEPT ![f] = newVersion]
            /\ UNCHANGED <<xSnap, xVer>>
       ELSE /\ xSnap' = [xSnap EXCEPT ![f] = newSnapshot]
            /\ xVer' = [xVer EXCEPT ![f] = newVersion]
            /\ UNCHANGED <<hSnap, hVer>>
    /\ lcOp' = "host"
    /\ lcRan' = FALSE
    /\ lcArg' = NoVal
    /\ lcProbe' = NoProbe
    /\ UNCHANGED <<hFiles, hPV, isTsc, lastProjectVersion, tsProjectVersion, sources,
                   sourceFileVersions, sourceTsFileVersions, virtualFileVersions,
                   lastView, lastRet, generatedAt, lastFileNames>>
    /\ UNCHANGED <<scriptSnapshots, snRet>>
    /\ UNCHANGED <<dgVars, rsVars, wsVars, pgVars, mdVars, stVars>>

\* the host deletes a file: no snapshot any more, and the next version string
HostDeleteFile(f) ==
    /\ HostSnapshot(f) # 0
    /\ hostOps < MaxHostOps
    /\ hostOps' = hostOps + 1
    /\ IF f \in Paths
       THEN /\ hSnap' = [hSnap EXCEPT ![f] = 0]
            /\ hVer' = [hVer EXCEPT ![f] = toString(parseInt(@) + 1)]
            /\ UNCHANGED <<xSnap, xVer>>
       ELSE /\ xSnap' = [xSnap EXCEPT ![f] = 0]
            /\ xVer' = [xVer EXCEPT ![f] = toString(parseInt(@) + 1)]
            /\ UNCHANGED <<hSnap, hVer>>
    /\ lcOp' = "host"
    /\ lcRan' = FALSE
    /\ lcArg' = NoVal
    /\ lcProbe' = NoProbe
    /\ UNCHANGED <<hFiles, hPV, isTsc, lastProjectVersion, tsProjectVersion, sources,
                   sourceFileVersions, sourceTsFileVersions, virtualFileVersions,
                   lastView, lastRet, generatedAt, lastFileNames>>
    /\ UNCHANGED <<scriptSnapshots, snRet>>
    /\ UNCHANGED <<dgVars, rsVars, wsVars, pgVars, mdVars, stVars>>

\* languageServiceHost.getScriptSnapshot(fileName): update(), then the call
GetScriptSnapshot(f) ==
    LET u == update
        r == getScriptSnapshot(u.sources, virtualFileVersions, scriptSnapshots, f) IN
    /\ tsProjectVersion < MaxPV
    /\ f \in TsUnits => virtualFileVersions[f].value < MaxTok
    /\ lastProjectVersion' = u.lastProjectVersion
    /\ tsProjectVersion' = u.tsProjectVersion
    /\ sources' = u.sources
    /\ sourceFileVersions' = u.sourceFileVersions
    /\ sourceTsFileVersions' = u.sourceTsFileVersions
    /\ virtualFileVersions' = r.vfv
    /\ scriptSnapshots' = r.scriptSnapshots
    /\ snRet' = r.ret
    /\ lastView' = IF u.ran THEN EngineView(u.sources) ELSE lastView
    /\ generatedAt' = IF u.ran THEN GeneratedNow ELSE generatedAt
    /\ lastFileNames' = getScriptFileNames(u.sources)
    /\ lcOp' = "snapshot"
    /\ lcRan' = u.ran
    /\ lcArg' = f
    /\ lcProbe' = NoProbe
    /\ UNCHANGED <<lastRet, xSnap, xVer>>
    /\ UNCHANGED <<hFiles, hSnap, hVer, hPV, isTsc, hostOps>>
    /\ UNCHANGED <<dgVars, rsVars, wsVars, pgVars, mdVars, stVars>>

\* /b.ts is a root file and /a.vue is not; a file the host does not have has
\* no version string
SnInit ==
    /\ LCInit
    /\ "/b.ts" \in hFiles
    /\ "/a.vue" \notin hFiles
    /\ ~isTsc
    /\ xSnap \in [ExtraPaths -> {0, 1}]
    /\ xVer = [f \in ExtraPaths |-> IF xSnap[f] = 0 THEN "" ELSE "0"]
    /\ scriptSnapshots = [k \in CacheKeys |-> NoCache]
    /\ snRet = NoSnapshot

SnIdle ==
    /\ xSnap = [f \in ExtraPaths |-> 0]
    /\ xVer = [f \in ExtraPaths |-> "0"]
    /\ scriptSnapshots = [k \in CacheKeys |-> NoCache]
    /\ snRet = NoSnapshot

SnNext ==
    \/ \E f \in WrittenPaths : HostWriteFile(f)
    \/ \E f \in WrittenPaths : HostDeleteFile(f)
    \/ \E f \in SnapPaths : GetScriptSnapshot(f)

InitLC == LCInit /\ DgIdle /\ RsIdle /\ WsIdle /\ PgIdle /\ MdIdle /\ StIdle /\ SnIdle
InitDiag == DgInit /\ LCIdle /\ RsIdle /\ WsIdle /\ PgIdle /\ MdIdle /\ StIdle /\ SnIdle
InitResolve == RsInit /\ LCIdle /\ DgIdle /\ WsIdle /\ PgIdle /\ MdIdle /\ StIdle /\ SnIdle
InitWs == WsInit /\ LCIdle /\ DgIdle /\ RsIdle /\ PgIdle /\ MdIdle /\ StIdle /\ SnIdle
InitOverlay == PgInit /\ LCIdle /\ DgIdle /\ RsIdle /\ WsIdle /\ MdIdle /\ StIdle /\ SnIdle
InitModules == MdInit /\ LCIdle /\ DgIdle /\ RsIdle /\ WsIdle /\ PgIdle /\ StIdle /\ SnIdle
InitSort == StInit /\ LCIdle /\ DgIdle /\ RsIdle /\ WsIdle /\ PgIdle /\ MdIdle /\ SnIdle
InitSnapshots == SnInit /\ DgIdle /\ RsIdle /\ WsIdle /\ PgIdle /\ MdIdle /\ StIdle

SpecLC == InitLC /\ [][LCNext]_vars

SpecDiag == InitDiag /\ [][DgNext]_vars

SpecResolve == InitResolve /\ [][RsNext]_vars

SpecWs == InitWs /\ [][WsNext]_vars

SpecOverlay == InitOverlay /\ [][PgNext]_vars

SpecModules == InitModules /\ [][MdNext]_vars

SpecSort == InitSort /\ [][StNext]_vars

SpecSnapshots == InitSnapshots /\ [][SnNext]_vars


(***************************************************************************)
(* Properties of the language context.                                     *)
(***************************************************************************)
\* a step that is an access to the language context (an update() call)
IsAccessStep == lcOp' \in {"access", "query", "probe"}
\* ... in which the update cycle ran
IsCycleStep == IsAccessStep /\ lcRan'

\* a tracked document was deleted from the store in this step
DocDeletedInStep == \E d \in Docs : sources[d] # 0 /\ sources'[d] = 0
\* a tracked document was regenerated in this step (its recorded host version changed)
DocRegeneratedInStep == \E d \in Docs : sourceFileVersions'[d] # sourceFileVersions[d]
\* a recorded plain-file version string was added, changed or dropped in this step
PlainRecordChangedInStep == sourceTsFileVersions' # sourceTsFileVersions
\* after this step's update cycle an engine-visible unit's snapshot is not the
\* one recorded at its last getScriptVersion query
UnitDiffersFromRecordInStep ==
    \E d \in Docs :
        /\ updatedSources[d] # 0
        /\ virtualFileVersions[UnitTs(d)].has
        /\ virtualFileVersions[UnitTs(d)].virtualFileSnapshot # GenTs(updatedSources[d])

\* C1 (as claimed): the Project Version increments at most once per update
\* cycle and only when the engine-visible files or their identities differ
\* from those of the previous cycle.
C1_OnlyWhenViewChanged ==
    [][tsProjectVersion' # tsProjectVersion
           => /\ tsProjectVersion' = tsProjectVersion + 1
              /\ IsCycleStep
              /\ lastView' # lastView]_vars

\* C1 (amended): the Project Version increments at most once per update
\* cycle, never in a skipped cycle, and in a cycle that runs exactly when no
\* tracked document was regenerated or deleted (the host's project-version
\* change is then attributed to a plain file), a tracked document was
\* deleted, a recorded plain-file version string was added, changed or
\* dropped, or an engine-visible unit's snapshot differs from the one
\* recorded at its last version query.
C1_IncrementRule ==
    [][/\ tsProjectVersion' \in {tsProjectVersion, tsProjectVersion + 1}
       /\ ~IsCycleStep => tsProjectVersion' = tsProjectVersion
       /\ IsCycleStep =>
            (tsProjectVersion' = tsProjectVersion + 1
               <=> \/ ~(DocRegeneratedInStep \/ DocDeletedInStep)
                   \/ DocDeletedInStep
                   \/ PlainRecordChangedInStep
                   \/ UnitDiffersFromRecordInStep)]_vars

\* C1 witness: a later update cycle regenerated /a.vue and left the Project
\* Version at the value the first cycle gave it.
C1_Witness ==
    /\ lcRan
    /\ tsProjectVersion = 1
    /\ sourceFileVersions["/a.vue"] # NoVal

\* the host reports new content for tracked document d: a new snapshot, a new
\* version string and a new project version
ContentChanged(d) ==
    /\ sources[d] # 0
    /\ hSnap[d] \notin {0, sources[d]}
    /\ hVer[d] # generatedAt[d]
    /\ hPV # NoVal
    /\ hPV # lastProjectVersion

\* ... and the document's engine-visible unit has a token record whose
\* snapshot is not the snapshot the unit is regenerated with
UnitContentChanged(d) ==
    /\ ContentChanged(d)
    /\ virtualFileVersions[UnitTs(d)].has
    /\ virtualFileVersions[UnitTs(d)].virtualFileSnapshot # GenTs(hSnap[d])

\* the step queries the version of d's engine-visible unit
QueriesUnitOf(d) == lcOp' = "query" /\ lcArg' = UnitTs(d)

UnitsOf(d) == {UnitTs(d), UnitHtml(d)}

\* C13: a tracked source document for which the host returns no snapshot during
\* an update cycle is deleted from the store in that cycle, so right after every
\* update cycle each tracked source document has a host snapshot and
\* getScriptFileNames reports none of the deleted document's generated units.
C13_MissingSnapshotDeletes ==
    [][IsCycleStep =>
          /\ \A d \in Docs : (sources[d] # 0 /\ hSnap[d] = 0) =>
                 /\ sources'[d] = 0
                 /\ UnitsOf(d) \cap getScriptFileNames(sources') = {}
          /\ \A d \in Docs : sources'[d] # 0 => hSnap[d] # 0]_vars

\* C13 witness: an update cycle ran for a document that had been generated and
\* that the host has no snapshot of any more, while another stays tracked
C13_Witness ==
    /\ lcRan
    /\ \E d \in Docs : generatedAt[d] # NoVal /\ hSnap[d] = 0 /\ sources[d] = 0
    /\ \E d \in Docs : sources[d] # 0


\* C15: a probe fileExists(p), p = stem + ext with ext one of .js .ts .jsx .tsx,
\* for a stem that is not tracked and that the host has a snapshot of, runs
\* updateSource for the stem before it answers (the stem is tracked from then
\* on if a language module accepts it); for every p the answer is true exactly
\* when p is a generated unit of a tracked document after that registration or
\* the host itself reports that p exists.
C15_ProbeRegistersThenAnswers ==
    [][lcOp' = "probe" =>
          /\ (/\ extOf(lcArg') \in HostExtensions
              /\ ~hasSource(update.sources, stemOf(lcArg'))
              /\ HostSnapshot(stemOf(lcArg')) # 0)
                => /\ lcProbe'.updateSource
                   /\ Accepts(stemOf(lcArg')) =>
                          sources'[stemOf(lcArg')] = hSnap[stemOf(lcArg')]
          /\ lcProbe'.answer <=> (\/ hasVirtualFile(sources', lcArg')
                                  \/ hostFileExists(lcArg'))]_vars

\* C15 witness: the probe of /c.vue.ts registered /c.vue, which is no root file
\* of the host, and answered true although the host has no file /c.vue.ts
C15_Witness ==
    /\ lcOp = "probe" /\ lcArg = "/c.vue.ts"
    /\ "/c.vue" \notin hFiles
    /\ lcProbe.updateSource /\ lcProbe.answer
    /\ sources["/c.vue"] # 0
    /\ ~hostFileExists("/c.vue.ts")

\* the host's project version is defined and is the one seen at the last access
Throttled == hPV # NoVal /\ hPV = lastProjectVersion

\* the token value of a unit's record (none: the unit was never queried)
TokenOf(vfv, u) == IF vfv[u].has THEN vfv[u].value ELSE 0 - 1

\* C16: when the host's project version is defined and equal to the one seen at
\* the previous access, the access performs no update: the tracked documents,
\* the recorded document and plain-file version strings and the Project Version
\* are unchanged, whatever the host's snapshots and version strings are by
\* then; the store changes only by what a fileExists call registers itself, and
\* the token records only by what a getScriptVersion call records itself.
C16_ThrottleSkipsUpdate ==
    [][(IsAccessStep /\ Throttled) =>
          /\ ~lcRan'
          /\ UNCHANGED <<tsProjectVersion, sourceFileVersions, sourceTsFileVersions>>
          /\ lcOp' # "probe" => sources' = sources
          /\ lcOp' = "probe" =>
                 \A d \in Docs : sources'[d] # sources[d] =>
                     (d = stemOf(lcArg') /\ sources[d] = 0)
          /\ lcOp' # "query" => virtualFileVersions' = virtualFileVersions
          /\ lcOp' = "query" =>
                 \A u \in TsUnits :
                     /\ u # lcArg' => virtualFileVersions'[u] = virtualFileVersions[u]
                     /\ (virtualFileVersions[u].has
                           /\ virtualFileVersions[u].virtualFileSnapshot
                                  = UnitSnapshot(sources, u)
                           /\ ~isTsc)
                          => TokenOf(virtualFileVersions', u)
                                 = TokenOf(virtualFileVersions, u)]_vars

\* C16 witness: a skipped access, while a tracked document has a new snapshot and
\* a new version string at the host
C16_Witness ==
    /\ lcOp = "access" /\ ~lcRan
    /\ hPV # NoVal /\ hPV = lastProjectVersion
    /\ \E d \in Docs :
          /\ sources[d] # 0
          /\ hSnap[d] # sources[d]
          /\ hVer[d] # generatedAt[d]

\* C17: in an update cycle, updateSource is re-run for a tracked document if and
\* only if the host's version string for it differs from the one the host
\* reported when the document was last generated, whichever way it became
\* tracked.
C17_RegeneratedIffVersionChanged ==
    [][IsCycleStep =>
          \A d \in Docs : (sources[d] # 0 /\ hSnap[d] # 0) =>
              (sourceFileVersions'[d] # sourceFileVersions[d]
                  <=> hVer[d] # generatedAt[d])]_vars


(***************************************************************************)
(* Properties of the diagnostic translation.                               *)
(***************************************************************************)
\* the ranges of the unit that target its owning document
OwnerRanges == {dgMappings[i] : i \in {j \in 1..Len(dgMappings) : dgMappings[j].source = DgSource}}

\* C4: a diagnostic of a generated unit is in the translated output only if
\* its start and its end (end-inclusive) each lie in a diagnostic-capable
\* range of the mapping that targets the owning document, and then at the
\* source offset such a range gives; otherwise it is absent.
C4_OnlyCapableRanges ==
    dgPc = "done" =>
        \A i \in 1..Len(dgOut) :
            LET d == dgDiags[dgOut[i].id] IN
            d.file = DgUnit =>
                /\ \E r \in OwnerRanges :
                       /\ r.diagnostic
                       /\ Covers(r, d.start, FALSE)
                       /\ dgOut[i].start = r.s0 + (d.start - r.g0)
                /\ \E r \in OwnerRanges :
                       /\ r.diagnostic
                       /\ Covers(r, d.start + d.length, TRUE)

\* C4 witness: a unit diagnostic was translated although a range without the
\* diagnostic capability claims its start offset as well.
C4_Witness ==
    /\ dgPc = "done"
    /\ dgDiags[1].file = DgUnit
    /\ dgOut # <<>>
    /\ \E r \in OwnerRanges : ~r.diagnostic /\ Covers(r, dgDiags[1].start, FALSE)

\* the diagnostic the engine reported, and whether the translation has run
DgInput == dgDiags[1]
DgDone == dgPc = "done"

IsKept(e) ==
    \/ e.file = NoFile
    \/ /\ e.start # NoPos
       /\ IF e.file = DgUnit
          THEN /\ dgSourceExists
               /\ \E r \in OwnerRanges : r.diagnostic /\ Covers(r, e.start, FALSE)
               /\ \E r \in OwnerRanges : r.diagnostic /\ Covers(r, e.start + e.length, TRUE)
          ELSE dgPlainExists

\* is o the entry e in source coordinates
IsTranslationOf(o, e) ==
    /\ o.id = e.id
    /\ IF e.file = DgUnit
       THEN /\ o.file = DgSource
            /\ \E r \in OwnerRanges :
                   /\ r.diagnostic /\ Covers(r, e.start, FALSE)
                   /\ o.start = r.s0 + (e.start - r.g0)
            /\ \E r \in OwnerRanges :
                   /\ r.diagnostic /\ Covers(r, e.start + e.length, TRUE)
                   /\ o.start + o.length = r.s0 + (e.start + e.length - r.g0)
       ELSE /\ o.file = e.file /\ o.start = e.start /\ o.length = e.length

\* the list out is the list in, translated entry by entry, the entries that are
\* not kept left out
IsTranslatedList(out, in) ==
    LET kept == SelectSeq(in, IsKept) IN
    /\ Len(out) = Len(kept)
    /\ \A j \in 1..Len(out) : IsTranslationOf(out[j], kept[j])

NamesNoUnit(list) == \A j \in 1..Len(list) : list[j].file # DgUnit

\* C19: the related-information list of every diagnostic in the output is the
\* input's list translated with the same algorithm, so that no diagnostic and
\* no related-information entry in the output names a generated unit.
C19_RelatedAlwaysTranslated ==
    DgDone =>
        \A i \in 1..Len(dgOut) :
            /\ dgOut[i].file # DgUnit
            /\ IsTranslatedList(dgOut[i].relatedInformation, DgInput.relatedInformation)
            /\ NamesNoUnit(dgOut[i].relatedInformation)

\* C19, amended: the related-information list of every diagnostic in the output
\* that has a file is the input's list translated with the same algorithm, and
\* neither that diagnostic nor an entry of its list names a generated unit; a
\* diagnostic with no file keeps its related-information list as reported.
C19_RelatedTranslatedUnderAFile ==
    DgDone =>
        \A i \in 1..Len(dgOut) :
            /\ dgOut[i].file # DgUnit
            /\ DgInput.file # NoFile =>
                   /\ IsTranslatedList(dgOut[i].relatedInformation,
                                       DgInput.relatedInformation)
                   /\ NamesNoUnit(dgOut[i].relatedInformation)
            /\ DgInput.file = NoFile =>
                   dgOut[i].relatedInformation = DgInput.relatedInformation

\* C19 witness: a unit diagnostic and its related entry in the unit were both
\* moved to other offsets of the owning document
C19_Witness ==
    /\ DgDone
    /\ DgInput.file = DgUnit
    /\ Len(DgInput.relatedInformation) = 1
    /\ DgInput.relatedInformation[1].file = DgUnit
    /\ Len(dgOut) = 1
    /\ Len(dgOut[1].relatedInformation) = 1
    /\ dgOut[1].relatedInformation[1].file = DgSource
    /\ dgOut[1].relatedInformation[1].start # DgInput.relatedInformation[1].start

(***************************************************************************)
(* Resolution claims, on the state a finished call leaves (SpecResolve).   *)
(***************************************************************************)
RsDone == rsPc = "done"

\* the chains the direct-inclusion pass got from getReferencesChains, over all roots
RECURSIVE flatten(_)
flatten(lists) == IF lists = <<>> THEN <<>> ELSE lists[1] \o flatten(Tail(lists))

ReturnedChains == flatten(rsOut.directChains)

HasRepeat(chain) == \E i, j \in 1..Len(chain) : i < j /\ chain[i] = chain[j]

\* C5: every chain getReferencesChains returns holds no configuration twice and
\* is no longer than the number of distinct configurations in the graph.
C5_ChainsAreSimplePaths ==
    RsDone =>
        \A k \in 1..Len(ReturnedChains) :
            /\ ~HasRepeat(ReturnedChains[k])
            /\ Len(ReturnedChains[k]) <= Cardinality(Configs)

\* C6: a resolution ends: the walk up the ancestors takes at most one iteration
\* per ancestor directory and ends at a searched directory or at the root, and
\* the reference traversal never nests deeper than twice the number of
\* configurations, whatever the reference graph (cycles and self-references
\* included); the call returns a configuration or none.
C6_ResolutionTerminates ==
    RsDone =>
        /\ rsOut.walkSteps <= Len(dirname(RsDoc)) + 1
        /\ (<<>> \in rsOut.searched \/ rsOut.searched \cap rsSearched0 # {})
        /\ ~rsOut.overflow
        /\ rsOut.depth <= 2 * Cardinality(Configs)
        /\ rsOut.tsconfig \in Configs \cup {NoConfig}

HasCycle ==
    \E c \in Configs : \E i \in 1..Len(rsRefs[c]) :
        LET d == resolveReference(rsRefs[c][i])
        IN  d = c \/ \E j \in 1..Len(rsRefs[d]) : resolveReference(rsRefs[d][j]) = c

C6_Witness ==
    /\ RsDone
    /\ HasCycle
    /\ rsOut.depth >= 3
    /\ rsOut.walkSteps = 2

Loaded(c) == rsEngine[c] = "loaded"
NoDirectInclusion == \A c \in Configs : ~rsDirect[c]

\* the chains of the indirect pass in the order they are searched
RECURSIVE searchOrder(_)
searchOrder(perRoot) ==
    IF perRoot = <<>> THEN <<>>
    ELSE (IF rsReverse THEN reverse(perRoot[1]) ELSE perRoot[1]) \o searchOrder(Tail(perRoot))

IndirectChains == searchOrder(rsOut.indirectChains)
HasLoaded(chain) == \E i \in 1..Len(chain) : Loaded(chain[i])
\* the loaded configuration farthest from the root of a chain
InnermostLoaded(chain) ==
    chain[CHOOSE i \in 1..Len(chain) :
              Loaded(chain[i]) /\ \A j \in (i + 1)..Len(chain) : ~Loaded(chain[j])]

\* C7: when no configuration lists the document, the call returns, from the first
\* searched chain that holds a configuration whose engine loaded the document,
\* the one of them farthest from the root (none if no chain holds one); with
\* pkgA referencing pkgB and both engines having loaded the document under pkgB
\* it returns pkgB's configuration.
C7_LeafFirst ==
    (RsDone /\ NoDirectInclusion) =>
        /\ IF \E k \in 1..Len(IndirectChains) : HasLoaded(IndirectChains[k])
           THEN LET k0 == CHOOSE k \in 1..Len(IndirectChains) :
                              /\ HasLoaded(IndirectChains[k])
                              /\ \A m \in 1..(k - 1) : ~HasLoaded(IndirectChains[m])
                IN  /\ rsOut.via = "indirect"
                    /\ rsOut.tsconfig = InnermostLoaded(IndirectChains[k0])
           ELSE rsOut.tsconfig = NoConfig
        /\ (rsRefs[CfgA] = << <<"pkgB">> >> /\ rsRefs[CfgB] = <<>> /\ Loaded(CfgA) /\ Loaded(CfgB))
              => rsOut.tsconfig = CfgB

\* a chain root..leaf of two loaded configurations was searched: the leaf is returned
C7_Witness ==
    /\ RsDone
    /\ NoDirectInclusion
    /\ rsOut.via = "indirect"
    /\ \E k \in 1..Len(IndirectChains) :
          /\ Len(IndirectChains[k]) = 2
          /\ Loaded(IndirectChains[k][1])
          /\ rsOut.tsconfig = IndirectChains[k][2]
          /\ IndirectChains[k][1] # IndirectChains[k][2]

SortedRoots == sortConfigs(RsDoc, asArray(rsOut.roots))
ListingRoots == {i \in 1..Len(SortedRoots) : rsDirect[SortedRoots[i]]}
IsReferenced(c) ==
    \E d \in Configs : \E i \in 1..Len(rsRefs[d]) : resolveReference(rsRefs[d][i]) = c

\* C8 as stated: whenever a discovered candidate lists the document, the call
\* returns the highest-ranked candidate that lists it.
C8_HighestRankedLister ==
    (RsDone /\ ListingRoots # {}) =>
        rsOut.tsconfig =
            SortedRoots[CHOOSE i \in ListingRoots : \A j \in ListingRoots : i <= j]

\* C8 amended: the direct pass returns the first configuration it examines that
\* lists the document; a candidate that has a Project when the pass starts and
\* lists the document is returned unless a configuration examined before it
\* lists the document too; a candidate without a Project that no configuration
\* references is neither examined nor parsed.
C8_FirstExaminedLister ==
    RsDone =>
        LET examined == rsOut.directExamined
        IN  /\ \A j \in 1..(Len(examined) - 1) : ~rsDirect[examined[j]]
            /\ rsOut.via = "direct" =>
                  examined # <<>> /\ rsOut.tsconfig = examined[Len(examined)]
                  /\ rsDirect[rsOut.tsconfig]
            /\ \A c \in rsOut.roots :
                  (c \in rsOut.prepared /\ rsDirect[c]) =>
                      /\ rsOut.via = "direct"
                      /\ (rsOut.tsconfig # c => \A j \in 1..Len(examined) : examined[j] # c)
            /\ \A c \in rsOut.roots :
                  (c \notin rsOut.prepared /\ ~IsReferenced(c)) =>
                      /\ c \notin rsOut.projects
                      /\ \A j \in 1..Len(examined) : examined[j] # c

\* a higher-ranked candidate lists the document but has no Project and is passed
\* over; a lower-ranked one with a Project lists it and is returned
C8_Witness ==
    /\ RsDone
    /\ rsOut.via = "direct"
    /\ \E i, j \in 1..Len(SortedRoots) :
          /\ i < j
          /\ rsDirect[SortedRoots[i]]
          /\ SortedRoots[i] \notin rsOut.projects
          /\ rsOut.tsconfig = SortedRoots[j]

(***************************************************************************)
(* Workspace claims, over the interleavings of SpecWs.                     *)
(***************************************************************************)
\* C9: no getProjectAndTsConfig call returns a Project that a watch event or a
\* reload had taken out of the map (and so disposed or scheduled for disposal)
\* before the call returned.
C9_NeverReturnsRemovedProject ==
    \A c \in Calls : wsCalls[c].pc = "done" => ~wsCalls[c].stale

\* C10: a call whose awaited creation failed ends with that failure, and no call
\* is handed a creation that had already failed when it asked for the Project.
C10_FailedCreationNotReused ==
    \A c \in Calls :
        /\ (wsCalls[c].pc = "done" /\ wsCalls[c].project # 0)
              => wsInst[wsCalls[c].project].status = "resolved"
        /\ ~wsCalls[c].reused

\* a step that handles a Deleted watch event for /pkgB/tsconfig.json
IsDeletedEvent == wsExists /\ ~wsExists'

\* C11: after a Deleted watch event for a root configuration its Project is
\* absent from the project map and the configuration is absent from the
\* discovered roots, so that no later resolution considers it before a Created
\* event or a walk up the directories finds it again.
C11_DeletedRootForgotten ==
    [][IsDeletedEvent => (wsProjects'[CfgB] = 0 /\ CfgB \notin wsRoots')]_vars

(***************************************************************************)
(* Properties of the program overlay.                                      *)
(***************************************************************************)
\* the last step read or wrote a property that the overlay does not override
PassedThrough(op) == pgOp = op /\ pgProp \notin proxyProperties

\* C12: a read through the overlay of a property that is not overridden returns
\* the value of that property on the program the language service currently
\* returns (undefined if that program has no such property), and a write sets
\* it on that program.
C12_ReadsCurrentProgram ==
    /\ PassedThrough("get") => pgRead = propertyOf(pgPrograms[Len(pgPrograms)], pgProp)
    /\ PassedThrough("set") => pgPrograms[Len(pgPrograms)][pgProp] = pgRead

\* C12, amended: a read returns the current program's value whenever the current
\* program has the property, never what an earlier program was built with; a
\* property the current program lacks reads as the value last written through
\* the overlay (undefined if there is none); a write sets the value on the
\* current program.
C12_ReadsCurrentOrLastWritten ==
    /\ PassedThrough("get") =>
          /\ pgPrograms[Len(pgPrograms)][pgProp] # PgAbsent
                => pgRead = pgPrograms[Len(pgPrograms)][pgProp]
          /\ pgPrograms[Len(pgPrograms)][pgProp] = PgAbsent
                => pgRead = propertyOf(pgTarget, pgProp)
          /\ pgRead[1] = "built" => pgRead[2] = Len(pgPrograms)
    /\ PassedThrough("set") => pgPrograms[Len(pgPrograms)][pgProp] = pgRead

\* after a rebuild a read returns what the new program was built with, although
\* an earlier program had been written to
C12_Witness ==
    /\ PassedThrough("get")
    /\ Len(pgPrograms) > 1
    /\ pgRead = <<"built", Len(pgPrograms)>>
    /\ pgPrograms[1][pgProp] \in PgWritten

(***************************************************************************)
(* Properties of the creation of a language context.                       *)
(***************************************************************************)
\* C18: when several of the registered modules [m1, ..., mn] accept a source
\* document, the tree updateSource installs is the one of the
\* earliest-registered accepting module.
C18_EarliestRegisteredWins ==
    mdPc = "updated" => mdTree = firstAccepting(mdRegistered, mdAccepts)

(***************************************************************************)
(* The flag reverseConfigFilePriority (SpecResolve).                       *)
(***************************************************************************)
IsPrefix(a, b) == Len(a) <= Len(b) /\ \A i \in 1..Len(a) : a[i] = b[i]

\* the configurations of the searched chains, each chain from its leaf to its root
RECURSIVE leafFirst(_)
leafFirst(chains) ==
    IF chains = <<>> THEN <<>> ELSE reverse(chains[1]) \o leafFirst(Tail(chains))

\* a sequence without the later occurrences of its elements
RECURSIVE firstOccurrences(_, _)
firstOccurrences(seq, seen) ==
    IF seq = <<>> THEN <<>>
    ELSE IF seq[1] \in seen THEN firstOccurrences(Tail(seq), seen)
    ELSE <<seq[1]>> \o firstOccurrences(Tail(seq), seen \cup {seq[1]})

\* a sequence up to its first element that lists the document
RECURSIVE upToFirstLister(_)
upToFirstLister(seq) ==
    IF seq = <<>> THEN <<>>
    ELSE IF rsDirect[seq[1]] THEN <<seq[1]>>
    ELSE <<seq[1]>> \o upToFirstLister(Tail(seq))

\* C20: with reverseConfigFilePriority set, the candidate root configurations are
\* examined in exactly the reverse of the comparator order used without the
\* flag.
C20_RootsExaminedInReverse ==
    (RsDone /\ rsReverse) =>
        /\ IsPrefix(rsOut.directVisited, reverse(SortedRoots))
        /\ IsPrefix(rsOut.indirectVisited, reverse(SortedRoots))

\* C20, amended: with or without the flag the candidate roots are examined in
\* the comparator order; with the flag set the reference chains of each root
\* are searched in the reverse of the order getReferencesChains returned them
\* (each chain still from its leaf to its root, a configuration tested once),
\* so among the chains of one root the first match is taken from the opposite
\* end of the list of chains.
C20_ChainsSearchedInReverse ==
    RsDone =>
        /\ IsPrefix(rsOut.directVisited, SortedRoots)
        /\ IsPrefix(rsOut.indirectVisited, SortedRoots)
        /\ rsOut.directExamined
              = upToFirstLister(
                    firstOccurrences(leafFirst(searchOrder(rsOut.directChains)), {}))

\* C20 witness: with the flag set a root with two chains was searched, the leaf
\* of its last chain was tested first, and the candidates had two roots
C20_Witness ==
    /\ RsDone /\ rsReverse
    /\ Len(SortedRoots) > 1
    /\ rsOut.directChains # <<>>
    /\ LET chains == rsOut.directChains[1] IN
          /\ Len(chains) = 2
          /\ chains[1][Len(chains[1])] # chains[2][Len(chains[2])]
          /\ rsOut.directExamined[1] = chains[2][Len(chains[2])]

(***************************************************************************)
(* C21.  sortTsConfigs(file, a, b) ranks a above b exactly when (a) a's    *)
(* directory contains the file and b's does not, or (b) they agree on (a)  *)
(* and a has more path segments, or (c) they agree on (a) and (b) and a's  *)
(* base name is tsconfig.json while b's is not; the comparator is          *)
(* antisymmetric and transitive, and candidates that all differ under      *)
(* (a)-(c) sort to the same array whatever order they were discovered in.  *)
(***************************************************************************)
\* the directory of the configuration is an ancestor of the file
DirContains(config, file) ==
    /\ Len(config) - 1 < Len(file)
    /\ \A i \in 1..(Len(config) - 1) : config[i] = file[i]

IsCanonicalName(config) == config[Len(config)] = "tsconfig.json"

RanksAbove(file, a, b) ==
    \/ DirContains(a, file) /\ ~DirContains(b, file)
    \/ /\ DirContains(a, file) = DirContains(b, file)
       /\ Len(a) > Len(b)
    \/ /\ DirContains(a, file) = DirContains(b, file)
       /\ Len(a) = Len(b)
       /\ IsCanonicalName(a) /\ ~IsCanonicalName(b)

Sign(n) == IF n < 0 THEN 0 - 1 ELSE IF n > 0 THEN 1 ELSE 0

\* every two candidates of the array differ under the comparator
AllDiffer(file, array) ==
    \A i, j \in 1..Len(array) : i # j => sortTsConfigs(file, array[i], array[j]) # 0

\* the rearrangements of an array
Permuted(array) ==
    {[i \in 1..Len(array) |-> array[p[i]]] :
        p \in {q \in [1..Len(array) -> 1..Len(array)] :
                 \A i, j \in 1..Len(array) : i # j => q[i] # q[j]}}

C21_ComparatorOrdersCandidates ==
    /\ \A a, b \in SortPool :
           /\ (sortTsConfigs(stFile, a, b) < 0) = RanksAbove(stFile, a, b)
           /\ Sign(sortTsConfigs(stFile, a, b)) = 0 - Sign(sortTsConfigs(stFile, b, a))
    /\ \A a, b, c \in SortPool :
           sortTsConfigs(stFile, a, b) < 0 /\ sortTsConfigs(stFile, b, c) < 0
               => sortTsConfigs(stFile, a, c) < 0
    /\ stPc = "sorted" /\ AllDiffer(stFile, stCandidates)
           => \A other \in Permuted(stCandidates) : sortConfigs(stFile, other) = stSorted

\* three candidates that all differ were sorted into another order than they were
\* discovered in, rule (a) and rule (c) each deciding a pair
C21_Witness ==
    /\ stPc = "sorted"
    /\ Len(stCandidates) >= 3
    /\ AllDiffer(stFile, stCandidates)
    /\ stSorted # stCandidates
    /\ \E i, j \in 1..Len(stSorted) :
           /\ i < j
           /\ dirname(stSorted[i]) = dirname(stSorted[j])
    /\ \E i, j \in 1..Len(stSorted) :
           /\ i < j
           /\ DirContains(stSorted[i], stFile) /\ ~DirContains(stSorted[j], stFile)

(***************************************************************************)
(* C22.  Whenever the file set returned by getScriptFileNames differs      *)
(* between two consecutive accesses, the Project Version returned by       *)
(* getProjectVersion differs between those accesses as well.               *)
(***************************************************************************)
C22_FileSetChangeBumpsVersion ==
    [][IsAccessStep /\ lastFileNames # NoFileNames /\ lastFileNames' # lastFileNames
           => toString(tsProjectVersion') # toString(tsProjectVersion)]_vars

(***************************************************************************)
(* C23.  For every path, getScriptSnapshot returns the snapshot that       *)
(* currently belongs to that path: the current snapshot of the generated   *)
(* unit the path resolves to, otherwise the host's current snapshot of the *)
(* path (undefined when the host has none).                                *)
(***************************************************************************)
currentSnapshot(srcs, fileName) ==
    IF hasVirtualFile(srcs, fileName)
    THEN <<"unit", fileName, UnitSnapshot(srcs, fileName)>>
    ELSE IF HostSnapshot(fileName) # 0
    THEN <<"host", fileName, HostSnapshot(fileName)>>
    ELSE NoSnapshot

C23_ReturnsCurrentSnapshot ==
    lcOp = "snapshot" => snRet = currentSnapshot(sources, lcArg)

(***************************************************************************)
(* C24.  Every translated diagnostic has a non-negative length: the source *)
(* offset resolved for its start is less than or equal to the source       *)
(* offset resolved for its end, for any set of mapping ranges.             *)
(***************************************************************************)
C24_TranslatedLengthNonNegative ==
    DgDone => \A i \in 1..Len(dgOut) :
                  dgOut[i].file # NoFile /\ dgOut[i].start # NoPos => dgOut[i].length >= 0

(***************************************************************************)
(* C25.  For every root configuration with a Project, every configuration  *)
(* reachable from it through declared project references appears in at     *)
(* least one chain returned by getReferencesChains, also when the          *)
(* reference graph contains a cycle or a self-reference.                   *)
(***************************************************************************)
\* the configurations a configuration references
ReferencedBy(c) == {resolveReference(rsRefs[c][i]) : i \in 1..Len(rsRefs[c])}

RECURSIVE reachableWithin(_, _)
reachableWithin(set, steps) ==
    IF steps = 0 THEN set
    ELSE reachableWithin(set \cup UNION {ReferencedBy(c) : c \in set}, steps - 1)

ReachableFrom(root) == reachableWithin({root}, Cardinality(Configs))

ChainsCover(chains) ==
    chains # <<>> =>
        LET root == chains[1][1]
        IN  \A c \in ReachableFrom(root) :
                \E i \in 1..Len(chains) : \E j \in 1..Len(chains[i]) : chains[i][j] = c

C25_ChainsCoverReachable ==
    rsPc = "done" /\ ~rsOut.overflow =>
        /\ \A i \in 1..Len(rsOut.directChains) : ChainsCover(rsOut.directChains[i])
        /\ \A i \in 1..Len(rsOut.indirectChains) : ChainsCover(rsOut.indirectChains[i])

(***************************************************************************)
(* C26.  Across any interleaving of configuration watch events, reload and *)
(* workspace dispose, dispose() is invoked at most once on each created    *)
(* Project instance (the inferred project included), and right after       *)
(* reload or dispose the project map is empty and the inferred-project     *)
(* slot is unset.                                                          *)
(***************************************************************************)
C26_DisposedOnceAndCleared ==
    [][/\ \A i \in Insts : wsInst'[i].disposed <= 1
       /\ Reload \/ DisposeWorkspace =>
              /\ \A c \in WsConfigs : wsProjects'[c] = 0
              /\ wsInferred' = 0]_vars

\* a reload or dispose removed a configured Project and the inferred Project, and
\* dispose() has run on both
C26_Witness ==
    /\ wsInferred = 0
    /\ \A c \in WsConfigs : wsProjects[c] = 0
    /\ \E i, j \in wsRemoved :
           /\ wsInst[i].tsConfig = CfgB /\ wsInst[i].disposed = 1
           /\ wsInst[j].tsConfig = NoConfig /\ wsInst[j].disposed = 1

====
